---- MODULE Spec2Model ----
(***************************************************************************)
(* Agent Fleet (vscode-agent-fleet): the status engine (hook watcher,      *)
(* status map, prompts), the workspace focus arbiter, the change-set       *)
(* cache and the git status reader, as state machines.                     *)
(*                                                                         *)
(* One module, several specifications over the same variables:             *)
(*   SpecMap     mapEventToStatus applied to every event and prior status  *)
(*   Spec        status map, prompts, terminals and the commands           *)
(*   SpecWatcher the hook watcher feeding the status map                   *)
(*   SpecFocus   the workspace manager and the folder list                 *)
(*   SpecCache   the change-set cache of the tree provider, with time      *)
(*   SpecGit     GitService.getChangedFiles over a session directory       *)
(* Each specification leaves the variables of the others at their initial  *)
(* value, except where a handler of the program crosses components.        *)
(***************************************************************************)
EXTENDS Integers, Sequences, FiniteSets, TLC

VARIABLES
    \* ---- storage, status map, observers (part_000, part_001, extension.ts)
    agents,                 \* AgentStorage: the stored agents, in array order
    agentStatuses,          \* AgentTreeProvider.agentStatuses, keyed by directory
    statusBar,              \* NotificationService status bar counts
    prompts,                \* outstanding prompts, by dismiss token
    pendingNotifications,   \* NotificationService.pendingNotifications, by agent id
    terminals,              \* TerminalManager.terminals (agent ids that have one)
    refreshDue,             \* removeAgent handlers awaiting storage before refresh()
    addDialogs,             \* addAgent handlers awaiting showOpenDialog
    addDue,                 \* addAgent handlers awaiting storage: their agent ids
    \* ---- workspace manager (workspaceManager.ts)
    focusedAgentId,
    focusedFolderUri,
    globalState,            \* persisted focusedAgentId / focusedFolderPath
    workspaceFolders,       \* vscode.workspace.workspaceFolders
    \* ---- hook watcher (part_002)
    started,
    files,                  \* the events directory: path -> content
    processedFiles,
    readTimers,             \* pending setTimeout(processEventFile, 100) per path
    cleanupTimers,          \* pending setTimeout(unlink, 5000)
    delivered,              \* history: HookEvents fired per path
    transitions,            \* history: status map writes caused per path
    notified,               \* history: status-change notifications caused per path
    cleanupClock,           \* per path: when it was delivered, when its unlink is due
    \* ---- change-set cache (part_000)
    now,
    changedFilesCache,
    cacheTimers,
    inflight,
    repoVersion,
    fillInfo,               \* history: last completed underlying query per agent
    queryLog,               \* history: the last query issued
    gitQueries,             \* history: number of underlying queries started
    \* ---- git status reader (gitService.ts)
    gitInput,
    gitResult,
    \* ---- mapEventToStatus applied in isolation (part_002)
    mapInput,
    mapResult,
    \* ---- hook installer (hookInstaller.ts)
    settingsFile,           \* ~/.claude/settings.json
    settingsBefore,         \* history: the file before the last install / uninstall
    \* ---- history of the last operation
    lastOp

coreVars    == <<agents, agentStatuses, statusBar, prompts, pendingNotifications,
                 terminals>>
focusVars   == <<focusedAgentId, focusedFolderUri, globalState, workspaceFolders>>
watcherVars == <<started, files, processedFiles, readTimers, cleanupTimers,
                 delivered, transitions, notified, cleanupClock>>
cacheVars   == <<now, changedFilesCache, cacheTimers, inflight, repoVersion,
                 fillInfo, queryLog, gitQueries>>
gitVars     == <<gitInput, gitResult>>
mapVars     == <<mapInput, mapResult>>
installerVars == <<settingsFile, settingsBefore>>
addVars     == <<addDialogs, addDue>>
asyncVars   == <<refreshDue, addVars>>
vars        == <<coreVars, asyncVars, focusVars, watcherVars, cacheVars, gitVars,
                 mapVars, installerVars, lastOp>>

----------------------------------------------------------------------------
(* Values                                                                  *)

\* types.ts AgentStatus
Statuses == {"idle", "running", "stuck", "complete"}

\* A directory with no entry in the agentStatuses map
NoStatus == "absent"

\* types.ts HookEventType, and one name outside the type
EventNames == {"PreToolUse", "PostToolUse", "PreCompact", "Notification",
               "Stop", "SessionStart", "SessionEnd", "Bogus"}

\* types.ts NotificationType, and the absent field
NoNotificationType == "undefined"
NotificationTypes == {"permission_prompt", "idle_prompt",
                      "user_cancelled_tool_use", "message", NoNotificationType}

\* Session directories: dA and dB hold a registered agent, dX never does
Dirs == {"dA", "dB", "dX"}
AgentIds == {"a1", "a2"}
NoAgent == "null"

\* The stored agents (StoredAgent: id and directory)
InitialAgents == << [id |-> "a1", directory |-> "dA"],
                    [id |-> "a2", directory |-> "dB"] >>

HookEvents == [cwd : Dirs, hook_event_name : EventNames,
               notification_type : NotificationTypes]

----------------------------------------------------------------------------
(* HookWatcher.mapEventToStatus                                            *)

\* The same switch with PostToolUse moved to the Stop branch
MapEventToStatusPostToolComplete(event) ==
    CASE event.hook_event_name \in {"PreToolUse", "PreCompact"} -> "running"
      [] event.hook_event_name = "PostToolUse" -> "complete"
      [] event.hook_event_name = "Notification" ->
            ( CASE event.notification_type = "permission_prompt" -> "stuck"
                [] event.notification_type = "idle_prompt" -> "complete"
                [] event.notification_type = "user_cancelled_tool_use" -> "running"
                [] OTHER -> "complete" )
      [] event.hook_event_name = "Stop" -> "complete"
      [] event.hook_event_name = "SessionEnd" -> "idle"
      [] OTHER -> "idle"

MapEventToStatus(event) ==
    CASE event.hook_event_name \in {"PreToolUse", "PreCompact"} -> "running"
      [] event.hook_event_name = "PostToolUse" -> "running"
      [] event.hook_event_name = "Notification" ->
            ( CASE event.notification_type = "permission_prompt" -> "stuck"
                [] event.notification_type = "idle_prompt" -> "complete"
                [] event.notification_type = "user_cancelled_tool_use" -> "running"
                [] OTHER -> "complete" )
      [] event.hook_event_name = "Stop" -> "complete"
      [] event.hook_event_name = "SessionEnd" -> "idle"
      [] OTHER -> "idle"

----------------------------------------------------------------------------
(* Bounds of the model                                                     *)

\* Prompts that may be outstanding (awaiting the user's answer) at once
MaxPrompts == 2

\* Directory dialogs of agentFleet.addAgent that may be open at once
MaxDialogs == 2
DialogIds == 1..MaxDialogs
\* No dialog under this id; an open dialog remembers the directories that
\* got an agent since it opened (history)
NoDialog == [open |-> FALSE, addedSince |-> {}]

\* Filesystem notifications (create/change) whose delayed read is pending for
\* one path at the same time
MaxNotifications == 2

Tokens == 1..MaxPrompts
\* pendingNotifications holds no entry for the agent
NoToken == 0
\* pendingNotifications holds the token of a status change that showed no
\* prompt (an object no outstanding prompt refers to)
PlainToken == -1

NoDir == "none"
NoPath == "none"
NoAgentRec == [id |-> NoAgent, directory |-> NoDir]
EmptyPrompt == [live |-> FALSE, agentId |-> NoAgent, directory |-> NoDir,
                kind |-> "none", dismissed |-> FALSE, stale |-> FALSE,
                focused |-> FALSE]
EmptyBar == [empty |-> TRUE, running |-> 0, stuck |-> 0, complete |-> 0, idle |-> 0]
NoFocus == [focusedAgentId |-> NoAgent, focusedFolderPath |-> NoDir]

----------------------------------------------------------------------------
(* The program state as one value, so that a handler is the composition of *)
(* the calls it makes.  fired, wrote and overflow are bookkeeping of the   *)
(* handler being run: the status-change notifications it fired, whether it *)
(* wrote the status map, whether it needed more than MaxPrompts prompts,   *)
(* and the prompts it showed.                                              *)

\* History: the last status-change notification the onStatusChange listener
\* received, and the status it found stored for the directory
NoSeen == [dir |-> NoDir, agentId |-> NoAgent, old |-> "idle", new |-> "idle",
           stored |-> "idle"]

Cur == [agents |-> agents, st |-> agentStatuses, bar |-> statusBar,
        pr |-> prompts, pend |-> pendingNotifications, terms |-> terminals,
        fAgent |-> focusedAgentId, fUri |-> focusedFolderUri,
        gs |-> globalState, folders |-> workspaceFolders,
        fired |-> 0, wrote |-> FALSE, overflow |-> FALSE, shown |-> 0,
        listening |-> TRUE, seen |-> NoSeen]

Commit(s) ==
    /\ agents' = s.agents
    /\ agentStatuses' = s.st
    /\ statusBar' = s.bar
    /\ prompts' = s.pr
    /\ pendingNotifications' = s.pend
    /\ terminals' = s.terms
    /\ focusedAgentId' = s.fAgent
    /\ focusedFolderUri' = s.fUri
    /\ globalState' = s.gs
    /\ workspaceFolders' = s.folders

----------------------------------------------------------------------------
(* AgentStorage                                                            *)

\* Array.prototype.find: the first stored agent at one of the indices `hits`
FirstAt(list, hits) ==
    IF hits = {} THEN NoAgentRec
    ELSE list[CHOOSE i \in hits : \A j \in hits : i <= j]

GetAgent(s, id) ==
    FirstAt(s.agents, {i \in 1..Len(s.agents) : s.agents[i].id = id})

\* getAgentByDirectory that returns the first stored agent
GetAgentByDirectoryFirst(s, directory) ==
    IF Len(s.agents) = 0 THEN NoAgentRec ELSE s.agents[1]

GetAgentByDirectory(s, directory) ==
    FirstAt(s.agents, {i \in 1..Len(s.agents) : s.agents[i].directory = directory})

----------------------------------------------------------------------------
(* AgentTreeProvider: status map                                           *)

GetAgentStatus(s, directory) ==
    IF s.st[directory] = NoStatus THEN "idle" ELSE s.st[directory]

\* updateStatusBar fed with the status map instead of the stored agents
StatusCountsOfMap(s) ==
    LET n(status) == Cardinality({d \in Dirs : GetAgentStatus(s, d) = status})
    IN  IF Len(s.agents) = 0 THEN EmptyBar
        ELSE [empty |-> FALSE, running |-> n("running"), stuck |-> n("stuck"),
              complete |-> n("complete"), idle |-> n("idle")]

\* The counts NotificationService.updateStatusBar computes from
\* treeProvider.getAgentsWithStatus()
StatusCounts(s) ==
    LET n(status) == Cardinality({i \in 1..Len(s.agents) :
                        GetAgentStatus(s, s.agents[i].directory) = status})
    IN  IF Len(s.agents) = 0 THEN EmptyBar
        ELSE [empty |-> FALSE, running |-> n("running"), stuck |-> n("stuck"),
              complete |-> n("complete"), idle |-> n("idle")]

UpdateStatusBar(s) == [s EXCEPT !.bar = StatusCounts(s)]

\* AgentTreeProvider.refresh: onDidChangeTreeData fires, and the listener of
\* extension.ts updates the status bar.  activate() registers that listener
\* and the onStatusChange listener after hookWatcher.start(), so neither
\* runs during the replay of the backlog (listening is FALSE there)
Refresh(s) == IF s.listening THEN UpdateStatusBar(s) ELSE s

----------------------------------------------------------------------------
(* NotificationService: prompts and their dismiss tokens                   *)

FreeTokens(s) == {t \in Tokens : ~s.pr[t].live}

\* A prompt for `agent` is shown under the lowest free token and left pending
ShowPrompt(s, agent, kind) ==
    IF FreeTokens(s) = {} THEN [s EXCEPT !.overflow = TRUE]
    ELSE LET t == CHOOSE x \in FreeTokens(s) : \A y \in FreeTokens(s) : x <= y
         IN  [s EXCEPT !.pr[t] = [live |-> TRUE, agentId |-> agent.id,
                                  directory |-> agent.directory,
                                  kind |-> kind, dismissed |-> FALSE,
                                  stale |-> FALSE, focused |-> FALSE],
                       !.pend[agent.id] = t,
                       !.shown = @ + 1]

\* notifyStatusChange that shows a prompt for every change of status
NotifyStatusChangeEveryChange(s, agent, newStatus, oldStatus) ==
    IF newStatus = oldStatus THEN s
    ELSE ShowPrompt(s, agent, newStatus)

\* notifyStatusChange up to its await: the token is registered under the
\* agent id, and for stuck and complete a prompt is shown and left pending
NotifyStatusChange(s, agent, newStatus, oldStatus) ==
    IF newStatus = oldStatus THEN s
    ELSE IF newStatus \in {"stuck", "complete"}
    THEN ShowPrompt(s, agent, newStatus)
    ELSE [s EXCEPT !.pend[agent.id] = PlainToken]

\* dismissNotification: marks the token registered for the agent.  No
\* handler of extension.ts or of the commands calls it.
DismissNotification(s, agentId) ==
    IF s.pend[agentId] \in Tokens
    THEN [s EXCEPT !.pr[s.pend[agentId]].dismissed = TRUE]
    ELSE s

\* The onStatusChange listener of extension.ts
OnStatusChange(s, agentId, directory, oldStatus, newStatus) ==
    LET agent == GetAgent(s, agentId)
        s1 == IF agent # NoAgentRec
              THEN NotifyStatusChange(s, agent, newStatus, oldStatus)
              ELSE s
    IN  IF s.listening
        THEN UpdateStatusBar(
                [s1 EXCEPT !.fired = @ + 1,
                           !.seen = [dir |-> directory, agentId |-> agentId,
                                     old |-> oldStatus, new |-> newStatus,
                                     stored |-> GetAgentStatus(s, directory)]])
        ELSE [s EXCEPT !.fired = @ + 1]

\* History: a prompt shown for `directory` is stale once the stored status
\* of that directory has changed again
MarkStale(s, directory) ==
    [s EXCEPT !.pr = [t \in Tokens |->
        IF s.pr[t].live /\ s.pr[t].directory = directory
        THEN [s.pr[t] EXCEPT !.stale = TRUE] ELSE s.pr[t]]]

\* History: the terminal of `agentId` came to front while these prompts of
\* the agent were pending
MarkFocused(s, agentId) ==
    [s EXCEPT !.pr = [t \in Tokens |->
        IF s.pr[t].live /\ s.pr[t].agentId = agentId
        THEN [s.pr[t] EXCEPT !.focused = TRUE] ELSE s.pr[t]]]

----------------------------------------------------------------------------
(* AgentTreeProvider.handleHookEvent / setAgentStatus                      *)

\* setAgentStatus that fires the status-change notification on every call
SetAgentStatusAlwaysFires(s, directory, status) ==
    LET oldStatus == GetAgentStatus(s, directory)
        s1 == [s EXCEPT !.st[directory] = status, !.wrote = TRUE]
        agent == GetAgentByDirectory(s1, directory)
    IN  IF agent # NoAgentRec
        THEN Refresh(OnStatusChange(s1, agent.id, directory, oldStatus, status))
        ELSE Refresh(s1)

\* setAgentStatus that fires the notification before it stores the status
SetAgentStatusFiresFirst(s, directory, status) ==
    LET oldStatus == GetAgentStatus(s, directory)
        agent == GetAgentByDirectory(s, directory)
    IN  IF oldStatus # status THEN
            LET s1 == IF agent # NoAgentRec
                      THEN OnStatusChange(s, agent.id, directory, oldStatus, status)
                      ELSE s
            IN  Refresh(MarkStale([s1 EXCEPT !.st[directory] = status,
                                             !.wrote = TRUE], directory))
        ELSE Refresh([s EXCEPT !.st[directory] = status, !.wrote = TRUE])

SetAgentStatus(s, directory, status) ==
    LET oldStatus == GetAgentStatus(s, directory)
    IN  IF oldStatus # status THEN
            LET s1 == MarkStale([s EXCEPT !.st[directory] = status,
                                          !.wrote = TRUE], directory)
                agent == GetAgentByDirectory(s1, directory)
            IN  IF agent # NoAgentRec
                THEN Refresh(OnStatusChange(s1, agent.id, directory,
                                            oldStatus, status))
                ELSE Refresh(s1)
        ELSE Refresh([s EXCEPT !.st[directory] = status, !.wrote = TRUE])

\* handleHookEvent that lets a finished agent stay complete when it works again
HandleHookEventKeepsComplete(s, event) ==
    LET newStatus == MapEventToStatus(event)
        oldStatus == GetAgentStatus(s, event.cwd)
    IN  IF oldStatus = "complete" /\ newStatus = "running"
        THEN Refresh([s EXCEPT !.wrote = TRUE])
        ELSE IF oldStatus # newStatus THEN
            LET s1 == MarkStale([s EXCEPT !.st[event.cwd] = newStatus,
                                          !.wrote = TRUE], event.cwd)
                agent == GetAgentByDirectory(s1, event.cwd)
            IN  IF agent # NoAgentRec
                THEN Refresh(OnStatusChange(s1, agent.id, event.cwd,
                                            oldStatus, newStatus))
                ELSE Refresh(s1)
        ELSE Refresh([s EXCEPT !.st[event.cwd] = newStatus, !.wrote = TRUE])

HandleHookEvent(s, event) ==
    LET newStatus == MapEventToStatus(event)
        oldStatus == GetAgentStatus(s, event.cwd)
    IN  IF oldStatus # newStatus THEN
            LET s1 == MarkStale([s EXCEPT !.st[event.cwd] = newStatus,
                                          !.wrote = TRUE], event.cwd)
                agent == GetAgentByDirectory(s1, event.cwd)
            IN  IF agent # NoAgentRec
                THEN Refresh(OnStatusChange(s1, agent.id, event.cwd,
                                            oldStatus, newStatus))
                ELSE Refresh(s1)
        ELSE Refresh([s EXCEPT !.st[event.cwd] = newStatus, !.wrote = TRUE])

----------------------------------------------------------------------------
(* TerminalManager                                                         *)

HasTerminal(s, agentId) == agentId \in s.terms

\* createTerminal: the existing terminal is kept when there is one
CreateTerminal(s, agentId) == [s EXCEPT !.terms = @ \cup {agentId}]

\* closeTerminal: dispose and forget the terminal
CloseTerminal(s, agentId) == [s EXCEPT !.terms = @ \ {agentId}]

----------------------------------------------------------------------------
(* WorkspaceManager                                                        *)

\* Array.prototype.findIndex over the folder list, 0 for "not found" (-1)
FolderIndex(folders, uri) ==
    IF \E i \in 1..Len(folders) : folders[i] = uri
    THEN CHOOSE i \in 1..Len(folders) :
            /\ folders[i] = uri
            /\ \A j \in 1..Len(folders) : folders[j] = uri => i <= j
    ELSE 0

\* vscode.workspace.updateWorkspaceFolders(start, deleteCount, ...toAdd) once
\* accepted: a splice of the folder list (index is 1-based here)
UpdateWorkspaceFolders(folders, index, deleteCount, toAdd) ==
    SubSeq(folders, 1, index - 1) \o toAdd
        \o SubSeq(folders, index + deleteCount, Len(folders))

\* setFocusedAgent that persists nothing and forgets the folder
SetFocusedAgentIdOnly(s, agentId, uri) ==
    [s EXCEPT !.fAgent = agentId]

\* setFocusedAgent that keeps the focus in memory only
SetFocusedAgentNotPersisted(s, agentId, uri) ==
    [s EXCEPT !.fAgent = agentId, !.fUri = uri]

SetFocusedAgent(s, agentId, uri) ==
    [s EXCEPT !.fAgent = agentId, !.fUri = uri,
              !.gs = [focusedAgentId |-> agentId, focusedFolderPath |-> uri]]

ClearFocusedAgent(s) ==
    [s EXCEPT !.fAgent = NoAgent, !.fUri = NoDir, !.gs = NoFocus]

\* focusWorkspace that skips the "already in the workspace" check
FocusWorkspaceNoExistingCheck(s, agent, accept) ==
    LET agentUri == agent.directory
        removeIndex == IF s.fUri # NoDir THEN FolderIndex(s.folders, s.fUri) ELSE 0
        spliced == IF removeIndex > 0
                   THEN UpdateWorkspaceFolders(s.folders, removeIndex, 1, <<agentUri>>)
                   ELSE UpdateWorkspaceFolders(s.folders, Len(s.folders) + 1, 0,
                                               <<agentUri>>)
    IN  IF s.fAgent = agent.id THEN [s |-> s, ret |-> TRUE, asked |-> FALSE]
        ELSE IF accept
        THEN [s |-> SetFocusedAgent([s EXCEPT !.folders = spliced], agent.id, agentUri),
              ret |-> TRUE, asked |-> TRUE]
        ELSE [s |-> s, ret |-> FALSE, asked |-> TRUE]

\* focusWorkspace that records the focus whatever the folder update returned
FocusWorkspaceIgnoresFailure(s, agent, accept) ==
    LET agentUri == agent.directory
        removeIndex == IF s.fUri # NoDir THEN FolderIndex(s.folders, s.fUri) ELSE 0
        spliced == IF removeIndex > 0
                   THEN UpdateWorkspaceFolders(s.folders, removeIndex, 1, <<agentUri>>)
                   ELSE UpdateWorkspaceFolders(s.folders, Len(s.folders) + 1, 0,
                                               <<agentUri>>)
    IN  IF s.fAgent = agent.id THEN [s |-> s, ret |-> TRUE, asked |-> FALSE]
        ELSE IF FolderIndex(s.folders, agentUri) > 0
        THEN [s |-> SetFocusedAgent(s, agent.id, agentUri), ret |-> TRUE,
              asked |-> FALSE]
        ELSE IF accept
        THEN [s |-> SetFocusedAgent([s EXCEPT !.folders = spliced], agent.id, agentUri),
              ret |-> TRUE, asked |-> TRUE]
        ELSE [s |-> SetFocusedAgent(s, agent.id, agentUri), ret |-> FALSE,
              asked |-> TRUE]

\* focusWorkspace without the "already focused" return
FocusWorkspaceNoFocusedCheck(s, agent, accept) ==
    LET agentUri == agent.directory
        removeIndex == IF s.fUri # NoDir THEN FolderIndex(s.folders, s.fUri) ELSE 0
        spliced == IF removeIndex > 0
                   THEN UpdateWorkspaceFolders(s.folders, removeIndex, 1, <<agentUri>>)
                   ELSE UpdateWorkspaceFolders(s.folders, Len(s.folders) + 1, 0,
                                               <<agentUri>>)
    IN  IF FolderIndex(s.folders, agentUri) > 0
        THEN [s |-> SetFocusedAgent(s, agent.id, agentUri), ret |-> TRUE,
              asked |-> FALSE]
        ELSE IF accept
        THEN [s |-> SetFocusedAgent([s EXCEPT !.folders = spliced], agent.id, agentUri),
              ret |-> TRUE, asked |-> TRUE]
        ELSE [s |-> s, ret |-> FALSE, asked |-> TRUE]

\* focusWorkspace that adopts an existing folder and appends it once more
FocusWorkspaceAdoptAppends(s, agent, accept) ==
    LET agentUri == agent.directory
        removeIndex == IF s.fUri # NoDir THEN FolderIndex(s.folders, s.fUri) ELSE 0
        spliced == IF removeIndex > 0
                   THEN UpdateWorkspaceFolders(s.folders, removeIndex, 1, <<agentUri>>)
                   ELSE UpdateWorkspaceFolders(s.folders, Len(s.folders) + 1, 0,
                                               <<agentUri>>)
    IN  IF s.fAgent = agent.id THEN [s |-> s, ret |-> TRUE, asked |-> FALSE]
        ELSE IF FolderIndex(s.folders, agentUri) > 0
        THEN [s |-> SetFocusedAgent([s EXCEPT !.folders = Append(@, agentUri)],
                                    agent.id, agentUri),
              ret |-> TRUE, asked |-> FALSE]
        ELSE IF accept
        THEN [s |-> SetFocusedAgent([s EXCEPT !.folders = spliced], agent.id, agentUri),
              ret |-> TRUE, asked |-> TRUE]
        ELSE [s |-> s, ret |-> FALSE, asked |-> TRUE]

\* focusWorkspace that removes the previous folder, then appends the new one
FocusWorkspaceRemoveThenAppend(s, agent, accept) ==
    LET agentUri == agent.directory
        removeIndex == IF s.fUri # NoDir THEN FolderIndex(s.folders, s.fUri) ELSE 0
        removed == IF removeIndex > 0
                   THEN UpdateWorkspaceFolders(s.folders, removeIndex, 1, << >>)
                   ELSE s.folders
        spliced == UpdateWorkspaceFolders(removed, Len(removed) + 1, 0, <<agentUri>>)
    IN  IF s.fAgent = agent.id THEN [s |-> s, ret |-> TRUE, asked |-> FALSE]
        ELSE IF FolderIndex(s.folders, agentUri) > 0
        THEN [s |-> SetFocusedAgent(s, agent.id, agentUri), ret |-> TRUE,
              asked |-> FALSE]
        ELSE IF accept
        THEN [s |-> SetFocusedAgent([s EXCEPT !.folders = spliced], agent.id, agentUri),
              ret |-> TRUE, asked |-> TRUE]
        ELSE [s |-> s, ret |-> FALSE, asked |-> TRUE]

\* focusWorkspace(agent).  `accept` is what the environment answers if the
\* folder list update is requested; `asked` tells whether it was requested.
FocusWorkspace(s, agent, accept) ==
    LET agentUri == agent.directory
        removeIndex == IF s.fUri # NoDir THEN FolderIndex(s.folders, s.fUri) ELSE 0
        spliced == IF removeIndex > 0
                   THEN UpdateWorkspaceFolders(s.folders, removeIndex, 1, <<agentUri>>)
                   ELSE UpdateWorkspaceFolders(s.folders, Len(s.folders) + 1, 0,
                                               <<agentUri>>)
    IN  IF s.fAgent = agent.id THEN [s |-> s, ret |-> TRUE, asked |-> FALSE]
        ELSE IF FolderIndex(s.folders, agentUri) > 0
        THEN [s |-> SetFocusedAgent(s, agent.id, agentUri), ret |-> TRUE,
              asked |-> FALSE]
        ELSE IF accept
        THEN [s |-> SetFocusedAgent([s EXCEPT !.folders = spliced], agent.id, agentUri),
              ret |-> TRUE, asked |-> TRUE]
        ELSE [s |-> s, ret |-> FALSE, asked |-> TRUE]

\* unfocusWorkspace that keeps the focus when its folder left the list
UnfocusWorkspaceKeepsMissing(s, accept) ==
    LET removeIndex == FolderIndex(s.folders, s.fUri)
    IN  IF s.fUri = NoDir THEN [s |-> s, ret |-> TRUE, asked |-> FALSE]
        ELSE IF removeIndex = 0
        THEN [s |-> s, ret |-> TRUE, asked |-> FALSE]
        ELSE IF accept
        THEN [s |-> ClearFocusedAgent(
                      [s EXCEPT !.folders =
                          UpdateWorkspaceFolders(s.folders, removeIndex, 1, <<>>)]),
              ret |-> TRUE, asked |-> TRUE]
        ELSE [s |-> s, ret |-> FALSE, asked |-> TRUE]

\* unfocusWorkspace()
UnfocusWorkspace(s, accept) ==
    LET removeIndex == FolderIndex(s.folders, s.fUri)
    IN  IF s.fUri = NoDir THEN [s |-> s, ret |-> TRUE, asked |-> FALSE]
        ELSE IF removeIndex = 0
        THEN [s |-> ClearFocusedAgent(s), ret |-> TRUE, asked |-> FALSE]
        ELSE IF accept
        THEN [s |-> ClearFocusedAgent(
                      [s EXCEPT !.folders =
                          UpdateWorkspaceFolders(s.folders, removeIndex, 1, <<>>)]),
              ret |-> TRUE, asked |-> TRUE]
        ELSE [s |-> s, ret |-> FALSE, asked |-> TRUE]

\* onAgentRemoved(agentId)
OnAgentRemoved(s, agentId, accept) ==
    IF s.fAgent = agentId THEN UnfocusWorkspace(s, accept).s ELSE s

----------------------------------------------------------------------------
(* Commands (registerCommands) and the listeners of extension.ts           *)

\* "Reset status from complete to idle" that resets whatever the status is
ResetIfCompleteAlways(s, agent) == SetAgentStatus(s, agent.directory, "idle")

\* The guarded reset every re-engaging command ends with:
\*   if (getAgentStatus(dir) === 'complete') setAgentStatus(dir, 'idle')
ResetIfComplete(s, agent) ==
    IF GetAgentStatus(s, agent.directory) = "complete"
    THEN SetAgentStatus(s, agent.directory, "idle")
    ELSE s

\* agentFleet.resetAgentStatus
ResetAgentStatusCmd(s, agentId) ==
    LET agent == GetAgent(s, agentId)
    IN  IF agent = NoAgentRec THEN s ELSE ResetIfComplete(s, agent)

\* agentFleet.openTerminal
OpenTerminalCmd(s, agentId) ==
    LET agent == GetAgent(s, agentId)
        s1 == IF HasTerminal(s, agentId) THEN s ELSE CreateTerminal(s, agentId)
    IN  IF agent = NoAgentRec THEN s ELSE ResetIfComplete(s1, agent)

\* agentFleet.selectAgent
SelectAgentCmd(s, agentId) ==
    LET agent == GetAgent(s, agentId)
    IN  IF agent = NoAgentRec THEN s ELSE ResetIfComplete(s, agent)

\* treeView.onDidChangeSelection: the reset needs the agent's terminal
TreeSelection(s, agentId) ==
    LET agent == GetAgent(s, agentId)
    IN  IF agent # NoAgentRec /\ HasTerminal(s, agentId)
        THEN ResetIfComplete(s, agent)
        ELSE s

\* agentFleet.focusWorkspace
FocusWorkspaceCmd(s, agentId, accept) ==
    LET agent == GetAgent(s, agentId)
    IN  IF agent = NoAgentRec THEN s
        ELSE ResetIfComplete(FocusWorkspace(s, agent, accept).s, agent)

\* agentFleet.setStatusIdle
SetStatusIdleCmd(s, agentId) ==
    LET agent == GetAgent(s, agentId)
    IN  IF agent = NoAgentRec THEN s
        ELSE SetAgentStatus(s, agent.directory, "idle")

\* The onTerminalClosed listener with the guarded reset of the commands
TerminalClosedResetsComplete(s, agentId) ==
    LET s1 == [s EXCEPT !.terms = @ \ {agentId}]
        agent == GetAgent(s1, agentId)
    IN  IF agent = NoAgentRec THEN s1 ELSE ResetIfComplete(s1, agent)

\* onDidCloseTerminal, then the onTerminalClosed listener of extension.ts
TerminalClosed(s, agentId) ==
    LET s1 == [s EXCEPT !.terms = @ \ {agentId}]
        agent == GetAgent(s1, agentId)
    IN  IF agent = NoAgentRec THEN s1
        ELSE SetAgentStatus(s1, agent.directory, "idle")

\* onDidChangeActiveTerminal for the terminal of an agent: onTerminalFocused
\* fires with the agent id; it has no listener
TerminalFocused(s, agentId) ==
    IF HasTerminal(s, agentId) THEN MarkFocused(s, agentId) ELSE s

\* What the user can answer to a prompt; "closed" is the toast going away
Choices == {"Open Terminal", "Focus Workspace", "Dismiss", "closed"}
ChoicesOf(kind) ==
    IF kind = "stuck" THEN {"Open Terminal", "Dismiss", "closed"} ELSE Choices

\* The command notifyStatusChange executes once its prompt has resolved
ActionFor(prompt, choice) ==
    IF prompt.dismissed THEN "none"
    ELSE IF prompt.kind = "stuck"
    THEN (IF choice = "Open Terminal" THEN "openTerminal" ELSE "none")
    ELSE CASE choice = "Focus Workspace" -> "focusWorkspace"
           [] choice = "Open Terminal" -> "openTerminal"
           [] OTHER -> "resetAgentStatus"

\* notifyStatusChange from its await on: the entry of the agent id is deleted
\* from pendingNotifications, then the chosen command runs
ResolvePrompt(s, t, choice, accept) ==
    LET prompt == s.pr[t]
        s1 == [s EXCEPT !.pr[t] = EmptyPrompt, !.pend[prompt.agentId] = NoToken]
        action == ActionFor(prompt, choice)
    IN  CASE action = "openTerminal" -> OpenTerminalCmd(s1, prompt.agentId)
          [] action = "focusWorkspace" -> FocusWorkspaceCmd(s1, prompt.agentId, accept)
          [] action = "resetAgentStatus" -> ResetAgentStatusCmd(s1, prompt.agentId)
          [] OTHER -> s1

----------------------------------------------------------------------------
(* Initial values and the history record of the last operation             *)

NoOp == [kind |-> "init", dir |-> NoDir, agentId |-> NoAgent, old |-> "idle",
         computed |-> "idle", fired |-> 0, wrote |-> FALSE,
         ret |-> TRUE, asked |-> FALSE, accepted |-> FALSE, prev |-> NoAgent,
         stale |-> FALSE, promptKind |-> "none", executed |-> "none",
         path |-> NoPath, shown |-> 0, focused |-> FALSE, sameFocus |-> TRUE,
         prevDir |-> NoDir, eventName |-> "none",
         notificationType |-> NoNotificationType, seen |-> NoSeen]

\* The handler `kind` ran on directory `dir` and left the state `s`
StatusOp(kind, agentId, dir, computed, s) ==
    [NoOp EXCEPT !.kind = kind, !.agentId = agentId, !.dir = dir,
                 !.old = IF dir = NoDir THEN "idle"
                         ELSE IF agentStatuses[dir] = NoStatus THEN "idle"
                         ELSE agentStatuses[dir],
                 !.computed = computed, !.fired = s.fired, !.wrote = s.wrote,
                 !.seen = s.seen,
                 !.shown = s.shown]

DirOf(agentId) == GetAgent(Cur, agentId).directory

CoreInit(stored) ==
    /\ agents = stored
    /\ agentStatuses = [d \in Dirs |-> NoStatus]
    /\ statusBar = StatusCounts([agents |-> stored,
                                 st |-> [d \in Dirs |-> NoStatus]])
    /\ prompts = [t \in Tokens |-> EmptyPrompt]
    /\ pendingNotifications = [a \in AgentIds |-> NoToken]
    /\ terminals = {}
    /\ refreshDue = 0
    /\ addDialogs = [k \in DialogIds |-> NoDialog]
    /\ addDue = {}

FocusInit(folders) ==
    /\ focusedAgentId = NoAgent
    /\ focusedFolderUri = NoDir
    /\ globalState = NoFocus
    /\ workspaceFolders = folders

\* new WorkspaceManager(context): the focus is restored from globalState
RestoredFocus(gs) ==
    [fAgent |-> gs.focusedAgentId,
     fUri |-> IF gs.focusedFolderPath # NoDir THEN gs.focusedFolderPath ELSE NoDir]

\* The events directory: file paths, and what a file holds
Paths == {"f1", "f2"}
NoEvent == [cwd |-> NoDir, hook_event_name |-> "none",
            notification_type |-> NoNotificationType]
AbsentFile == [state |-> "absent", event |-> NoEvent]
PartialFile == [state |-> "partial", event |-> NoEvent]
MalformedFile == [state |-> "malformed", event |-> NoEvent]
ValidFile(event) == [state |-> "valid", event |-> event]

\* A HookWatcher that was constructed and not started, on an empty directory
\* No delivery and no cleanup timer for a path
NoClock == [deliveredAt |-> -1, due |-> -1]

WatcherIdle ==
    /\ started = FALSE
    /\ files = [p \in Paths |-> [content |-> AbsentFile, mtime |-> 0]]
    /\ processedFiles = {}
    /\ readTimers = [p \in Paths |-> 0]
    /\ cleanupTimers = {}
    /\ delivered = [p \in Paths |-> 0]
    /\ transitions = [p \in Paths |-> 0]
    /\ notified = [p \in Paths |-> 0]
    /\ cleanupClock = [p \in Paths |-> NoClock]

\* A slot of changedFilesCache, keyed by agent id; files is the change set a
\* repository-status query returned, named by the repository version it saw
NoEntry == [live |-> FALSE, files |-> 0]

\* The last underlying query that completed for an agent, and whether
\* clearCache ran since
NoFill == [live |-> FALSE, at |-> 0, files |-> 0, cleared |-> FALSE]

\* The last call of getChangedFilesForAgent: whether it was served from the
\* cache, what it returned then, and the last completed fill it came after
NoQuery == [issued |-> FALSE, agentId |-> NoAgent, at |-> 0, hit |-> FALSE,
            files |-> 0, fill |-> NoFill]

CacheIdle ==
    /\ now = 0
    /\ changedFilesCache = [a \in AgentIds |-> NoEntry]
    /\ cacheTimers = {}
    /\ inflight = [a \in AgentIds |-> 0]
    /\ repoVersion = [a \in AgentIds |-> 0]
    /\ fillInfo = [a \in AgentIds |-> NoFill]
    /\ queryLog = NoQuery
    /\ gitQueries = 0

\* What the file system holds for a queried directory: whether git status
\* works there (the directory is inside a repository) and what it reports,
\* and what each immediate child that may be a repository root would report
NoGitInput == [directory |-> NoDir, isRepo |-> FALSE,
               status |-> [modified |-> << >>, created |-> << >>,
                           deleted |-> << >>, not_added |-> << >>,
                           renamed |-> << >>, conflicted |-> << >>],
               children |-> [r \in {"r1", "r2"} |-> "none"]]

NoGitResult == [done |-> FALSE, files |-> << >>]

GitIdle == gitInput = NoGitInput /\ gitResult = NoGitResult

MapIdle == mapInput = << >> /\ mapResult = "none"

\* No settings file, for the specifications without the hook installer
NoSettings == [state |-> "absent", hasHooks |-> FALSE, hooks |-> << >>,
               rest |-> "none"]

InstallerIdle == settingsFile = NoSettings /\ settingsBefore = NoSettings

----------------------------------------------------------------------------
(* SpecMap: mapEventToStatus on every event, under every prior status      *)

MapInit ==
    /\ CoreInit(InitialAgents) /\ FocusInit(<< >>) /\ WatcherIdle /\ CacheIdle
    /\ GitIdle /\ InstallerIdle
    /\ mapInput \in [event : HookEvents, prior : Statuses]
    /\ mapResult = "none"
    /\ lastOp = NoOp

MapApply ==
    /\ mapResult = "none"
    /\ mapResult' = MapEventToStatus(mapInput.event)
    /\ UNCHANGED <<coreVars, asyncVars, focusVars, watcherVars, cacheVars,
                   gitVars, installerVars, mapInput, lastOp>>

MapNext == MapApply

SpecMap == MapInit /\ [][MapNext]_vars

\* The transition table of the design (section 4.2), row by row
TableStatus(eventName, notificationType) ==
    CASE eventName \in {"PreToolUse", "PreCompact", "PostToolUse"} -> "running"
      [] eventName = "Notification" /\ notificationType = "permission_prompt" -> "stuck"
      [] eventName = "Notification" /\ notificationType = "idle_prompt" -> "complete"
      [] eventName = "Notification" /\ notificationType = "user_cancelled_tool_use"
            -> "running"
      [] eventName = "Notification" -> "complete"
      [] eventName = "Stop" -> "complete"
      [] eventName = "SessionEnd" -> "idle"
      [] OTHER -> "idle"

\* C1: for every hook event and every prior status, mapEventToStatus returns
\* the status of the transition table: running for PreToolUse, PreCompact and
\* PostToolUse; for Notification stuck / complete / running by type and
\* complete for any other or absent type; complete for Stop; idle for
\* SessionEnd, SessionStart and unknown names.
C1_TransitionTable ==
    mapResult # "none" =>
        mapResult = TableStatus(mapInput.event.hook_event_name,
                                mapInput.event.notification_type)

\* C1 witness: the function was applied to a Notification without a type
\* while the prior status was stuck
C1_Witness ==
    /\ mapResult = "complete"
    /\ mapInput.event.hook_event_name = "Notification"
    /\ mapInput.event.notification_type = NoNotificationType
    /\ mapInput.prior = "stuck"

----------------------------------------------------------------------------
(* Spec: the status map, the prompts and the commands, for one stored      *)
(* agent (a1 in dA) and a directory without agent (dX).  Hook events are   *)
(* delivered as HookWatcher.onEvent fires them.                            *)

OneAgent == << [id |-> "a1", directory |-> "dA"] >>
EventDirs == {"dA", "dX"}

othersIdle == <<asyncVars, watcherVars, cacheVars, gitVars, mapVars,
               installerVars>>

Init ==
    /\ CoreInit(OneAgent) /\ FocusInit(<< >>) /\ WatcherIdle /\ CacheIdle
    /\ GitIdle /\ MapIdle /\ InstallerIdle
    /\ lastOp = NoOp

\* Hook events with the notification type only where the producer sets it
DeliveredEvents ==
    {e \in HookEvents : /\ e.cwd \in EventDirs
                        /\ (e.hook_event_name # "Notification"
                                => e.notification_type = NoNotificationType)}

\* The commands and listeners that end with the guarded reset
ResetKinds == {"resetAgentStatus", "openTerminal", "selectAgent",
               "selectTreeItem", "focusWorkspace"}

\* HookWatcher.onEvent fires: handleHookEvent(event)
HookEvent(event) ==
    \E s \in {HandleHookEvent(Cur, event)} :
        /\ ~s.overflow
        /\ Commit(s)
        /\ lastOp' = StatusOp("hook", NoAgent, event.cwd, MapEventToStatus(event), s)
        /\ UNCHANGED othersIdle

ResetAgentStatus(agentId) ==
    \E s \in {ResetAgentStatusCmd(Cur, agentId)} :
        /\ Commit(s)
        /\ lastOp' = StatusOp("resetAgentStatus", agentId, DirOf(agentId), "idle", s)
        /\ UNCHANGED othersIdle

OpenTerminal(agentId) ==
    \E s \in {OpenTerminalCmd(Cur, agentId)} :
        /\ Commit(s)
        /\ lastOp' = StatusOp("openTerminal", agentId, DirOf(agentId), "idle", s)
        /\ UNCHANGED othersIdle

SelectAgent(agentId) ==
    \E s \in {SelectAgentCmd(Cur, agentId)} :
        /\ Commit(s)
        /\ lastOp' = StatusOp("selectAgent", agentId, DirOf(agentId), "idle", s)
        /\ UNCHANGED othersIdle

SelectTreeItem(agentId) ==
    \E s \in {TreeSelection(Cur, agentId)} :
        /\ Commit(s)
        /\ lastOp' = StatusOp("selectTreeItem", agentId, DirOf(agentId), "idle", s)
        /\ UNCHANGED othersIdle

FocusWorkspaceCommand(agentId, accept) ==
    \E s \in {FocusWorkspaceCmd(Cur, agentId, accept)} :
        /\ Commit(s)
        /\ lastOp' = StatusOp("focusWorkspace", agentId, DirOf(agentId), "idle", s)
        /\ UNCHANGED othersIdle

SetStatusIdle(agentId) ==
    \E s \in {SetStatusIdleCmd(Cur, agentId)} :
        /\ Commit(s)
        /\ lastOp' = StatusOp("setStatusIdle", agentId, DirOf(agentId), "idle", s)
        /\ UNCHANGED othersIdle

CloseTerminalByUser(agentId) ==
    \E s \in {TerminalClosed(Cur, agentId)} :
        /\ agentId \in terminals
        /\ Commit(s)
        /\ lastOp' = StatusOp("terminalClosed", agentId, DirOf(agentId), "idle", s)
        /\ UNCHANGED othersIdle

\* The user brings the terminal of an agent to front
FocusTerminalByUser(agentId) ==
    \E s \in {TerminalFocused(Cur, agentId)} :
        /\ agentId \in terminals
        /\ Commit(s)
        /\ lastOp' = StatusOp("terminalFocused", agentId, DirOf(agentId), "idle", s)
        /\ UNCHANGED othersIdle

\* The user answers prompt t (or the toast closes)
AnswerPrompt(t, choice, accept) ==
    /\ prompts[t].live
    /\ choice \in ChoicesOf(prompts[t].kind)
    /\ \E s \in {ResolvePrompt(Cur, t, choice, accept)} :
        /\ Commit(s)
        /\ lastOp' = [StatusOp("answer", prompts[t].agentId, prompts[t].directory,
                               "idle", s)
                        EXCEPT !.stale = prompts[t].stale,
                               !.focused = prompts[t].focused,
                               !.promptKind = prompts[t].kind,
                               !.executed = ActionFor(prompts[t], choice)]
        /\ UNCHANGED othersIdle

Next ==
    \/ \E event \in DeliveredEvents : HookEvent(event)
    \/ \E a \in AgentIds : ResetAgentStatus(a)
    \/ \E a \in AgentIds : OpenTerminal(a)
    \/ \E a \in AgentIds : SelectAgent(a)
    \/ \E a \in AgentIds : SelectTreeItem(a)
    \/ \E a \in AgentIds, accept \in BOOLEAN : FocusWorkspaceCommand(a, accept)
    \/ \E a \in AgentIds : SetStatusIdle(a)
    \/ \E a \in AgentIds : CloseTerminalByUser(a)
    \/ \E t \in Tokens, choice \in Choices, accept \in BOOLEAN :
            AnswerPrompt(t, choice, accept)

Spec == Init /\ [][Next]_vars


\* The status the tree provider reports for directory d in this state
StatusOf(d) == IF agentStatuses[d] = NoStatus THEN "idle" ELSE agentStatuses[d]

\* C2: whenever a hook event or a setAgentStatus call computes a status, the
\* value is stored (written again when it equals the current one), and a
\* status-change notification is fired only if it differs from the status
\* stored before; a hook event always writes the map.
C2_NoOpSuppression ==
    /\ lastOp.kind = "hook" => lastOp.wrote
    /\ lastOp.wrote =>
        /\ agentStatuses[lastOp.dir] = lastOp.computed
        /\ (lastOp.old = lastOp.computed => lastOp.fired = 0)
        /\ (lastOp.fired > 0 => lastOp.old # lastOp.computed)

\* C2 witness: a hook event mapped to running reached the registered
\* directory while its status was running: written again, nothing fired
C2_Witness ==
    /\ lastOp.kind = "hook" /\ lastOp.dir = "dA"
    /\ lastOp.old = "running" /\ lastOp.computed = "running"
    /\ lastOp.wrote /\ lastOp.fired = 0
    /\ agentStatuses["dA"] = "running"

\* C5 (as claimed): when the user answers a prompt shown for a transition to
\* stuck after the status of its session has changed again, no command
\* (open terminal, focus workspace, reset status) is executed for it.
C5_StalePromptDiscarded ==
    (lastOp.kind = "answer" /\ lastOp.promptKind = "stuck" /\ lastOp.stale)
        => lastOp.executed = "none"

\* The operations that perform the reset: the reset commands and listeners,
\* and a prompt answer that executes a command
IsResetOp ==
    \/ lastOp.kind \in ResetKinds
    \/ lastOp.kind = "answer" /\ lastOp.executed # "none"

\* C6: the reset changes a status only from complete to idle: run on idle,
\* running or stuck it leaves the status map unwritten and fires no
\* status-change notification; run on complete it leaves idle (the tree
\* selection listener, which resets only an agent with a terminal, leaves
\* idle or complete).
C6_ResetMonotonic ==
    (IsResetOp /\ lastOp.dir # NoDir) =>
        /\ lastOp.old # "complete" =>
              /\ StatusOf(lastOp.dir) = lastOp.old
              /\ ~lastOp.wrote
              /\ lastOp.fired = 0
        /\ lastOp.old = "complete" => StatusOf(lastOp.dir) \in {"idle", "complete"}
        /\ (lastOp.old = "complete" /\ lastOp.kind # "selectTreeItem")
              => StatusOf(lastOp.dir) = "idle"

\* C6 witness: openTerminal ran on a running agent and left it running
C6_Witness ==
    /\ lastOp.kind = "openTerminal" /\ lastOp.dir = "dA"
    /\ lastOp.old = "running" /\ agentStatuses["dA"] = "running"
    /\ "a1" \in terminals

\* C11: a handler shows a prompt only together with a status-change
\* notification that reports a transition into stuck or into complete from
\* a different status, at most one per notification; a transition into idle
\* or running and a write of an unchanged status show none, and every
\* pending prompt is a stuck or a complete prompt.
C11_PromptOnlyIntoStuckOrComplete ==
    /\ lastOp.shown <= lastOp.fired
    /\ lastOp.shown > 0 =>
            /\ lastOp.computed \in {"stuck", "complete"}
            /\ lastOp.old # lastOp.computed
    /\ \A t \in Tokens : prompts[t].live => prompts[t].kind \in {"stuck", "complete"}

\* C11 witness: a hook event took the registered agent from stuck to
\* running: the notification fired and no prompt was shown
C11_Witness ==
    /\ lastOp.kind = "hook" /\ lastOp.dir = "dA"
    /\ lastOp.old = "stuck" /\ lastOp.computed = "running"
    /\ lastOp.fired = 1 /\ lastOp.shown = 0

\* C19: the terminal-closed listener and agentFleet.setStatusIdle, run for
\* a registered agent, leave its status idle whatever it was before (idle,
\* running, stuck or complete): the map is written, and the change is
\* notified when the status was not idle.
C19_ForcedIdle ==
    (lastOp.kind \in {"terminalClosed", "setStatusIdle"} /\ lastOp.dir # NoDir)
        => /\ StatusOf(lastOp.dir) = "idle"
           /\ lastOp.wrote
           /\ lastOp.fired = (IF lastOp.old = "idle" THEN 0 ELSE 1)

\* C19 witness: the terminal of the registered agent was closed while the
\* agent was stuck, and the agent is idle
C19_Witness ==
    /\ lastOp.kind = "terminalClosed" /\ lastOp.dir = "dA"
    /\ lastOp.old = "stuck" /\ agentStatuses["dA"] = "idle"
    /\ lastOp.fired = 1

\* SpecPrompt: the prompts of the registered agent and its terminal, which
\* the user opens, brings to front and closes while prompts are pending
PromptNext ==
    \/ \E event \in {e \in DeliveredEvents : e.cwd = "dA"} : HookEvent(event)
    \/ \E a \in AgentIds : OpenTerminal(a)
    \/ \E a \in AgentIds : CloseTerminalByUser(a)
    \/ \E a \in AgentIds : FocusTerminalByUser(a)
    \/ \E t \in Tokens, choice \in Choices, accept \in BOOLEAN :
            AnswerPrompt(t, choice, accept)

SpecPrompt == Init /\ [][PromptNext]_vars

\* C38: every status-change notification that is fired carries an old
\* status different from the new one, the old status is the one stored for
\* the directory just before the handler ran, the notification names the
\* agent stored for that directory, and when the listener receives it the
\* status stored for the directory is already the new one.
C38_NotificationContent ==
    lastOp.fired > 0 =>
        /\ lastOp.seen.old # lastOp.seen.new
        /\ lastOp.seen.dir = lastOp.dir
        /\ lastOp.seen.old = lastOp.old
        /\ lastOp.seen.new = lastOp.computed
        /\ lastOp.seen.stored = lastOp.seen.new
        /\ GetAgentByDirectory(Cur, lastOp.dir).id = lastOp.seen.agentId

\* C38 witness: the terminal of the stuck agent was closed, and the
\* listener received stuck -> idle with idle already stored
C38_Witness ==
    /\ lastOp.kind = "terminalClosed" /\ lastOp.fired = 1
    /\ lastOp.seen = [dir |-> "dA", agentId |-> "a1", old |-> "stuck",
                      new |-> "idle", stored |-> "idle"]

\* C34: every outstanding prompt has its own dismiss token registered in
\* pendingNotifications until that prompt resolves: no later status change
\* of the agent (with or without a prompt) replaces it and no resolution of
\* another prompt removes it.
C34_OwnTokenRegistered ==
    \A t \in Tokens :
        prompts[t].live => pendingNotifications[prompts[t].agentId] = t

\* SpecEvents: hook events for every directory, delivered one after the
\* other, and the user's answers to the prompts they show
DeliverHookEvent(event) ==
    \E s \in {HandleHookEvent(Cur, event)} :
        /\ ~s.overflow
        /\ Commit(s)
        /\ lastOp' = [StatusOp("hook", NoAgent, event.cwd,
                                MapEventToStatus(event), s)
                            EXCEPT !.eventName = event.hook_event_name,
                                   !.notificationType = event.notification_type]
        /\ UNCHANGED othersIdle

EventsNext ==
    \/ \E event \in DeliveredEvents : DeliverHookEvent(event)
    \/ \E t \in Tokens, choice \in Choices, accept \in BOOLEAN :
            AnswerPrompt(t, choice, accept)

SpecEvents == Init /\ [][EventsNext]_vars

\* C26: a hook event leaves its directory with the status the transition
\* table gives for that event, whatever the status was before (running after
\* complete too), and leaves the status of every other directory as it was:
\* after a sequence of hook events the status of a directory is the one of
\* the last event delivered for it.
C26_LastEventWins ==
    [][lastOp'.kind = "hook" =>
        /\ agentStatuses'[lastOp'.dir]
              = TableStatus(lastOp'.eventName, lastOp'.notificationType)
        /\ \A d \in Dirs \ {lastOp'.dir} : agentStatuses'[d] = agentStatuses[d]]_vars

\* C26 witness: a PreToolUse event reached a directory whose status was
\* complete and left it running
C26_Witness ==
    /\ lastOp.kind = "hook" /\ lastOp.dir = "dA"
    /\ lastOp.eventName = "PreToolUse"
    /\ lastOp.old = "complete"
    /\ agentStatuses["dA"] = "running"

\* C12 (as claimed): a prompt that was pending when the terminal of its
\* agent came to front is marked dismissed, and when it is answered no
\* command is executed for it, whatever the answer.
C12_FocusedPromptDiscarded ==
    /\ \A t \in Tokens :
            (prompts[t].live /\ prompts[t].focused) => prompts[t].dismissed
    /\ (lastOp.kind = "answer" /\ lastOp.focused) => lastOp.executed = "none"

----------------------------------------------------------------------------
(* SpecWatcher: the hook watcher.  An external producer writes the files   *)
(* of the events directory; the filesystem watcher notifies; each          *)
(* notification schedules a delayed read; a delivered event goes through   *)
(* handleHookEvent.                                                        *)

\* The watcher's state with the program state it feeds
CurW == [files |-> files, processed |-> processedFiles, cleanup |-> cleanupTimers,
         delivered |-> delivered, transitions |-> transitions,
         notified |-> notified, core |-> Cur, skipped |-> FALSE,
         now |-> now, clock |-> cleanupClock]

CommitW(w) ==
    /\ files' = w.files
    /\ processedFiles' = w.processed
    /\ cleanupTimers' = w.cleanup
    /\ delivered' = w.delivered
    /\ transitions' = w.transitions
    /\ notified' = w.notified
    /\ cleanupClock' = w.clock
    /\ Commit(w.core)

\* The safety delay of scheduleCleanup, in seconds (setTimeout(..., 5000))
CleanupDelay == 5

\* scheduleCleanup that unlinks as soon as the event loop is free
ScheduleCleanupNoDelay(w, path) ==
    [w EXCEPT !.cleanup = @ \cup {path}, !.clock[path].due = w.now]

\* scheduleCleanup(filePath): a timer that unlinks the file after the delay
ScheduleCleanup(w, path) ==
    [w EXCEPT !.cleanup = @ \cup {path}, !.clock[path].due = w.now + CleanupDelay]

\* processEventFile without the processedFiles check
ProcessEventFileNoDedup(w, path) ==
    LET file == w.files[path].content
        w1 == [w EXCEPT !.processed = @ \cup {path}, !.skipped = FALSE]
        before == [w.core EXCEPT !.fired = 0, !.wrote = FALSE]
        after == HandleHookEvent(before, file.event)
    IN  IF file.state = "valid"
        THEN ScheduleCleanup(
                [w1 EXCEPT !.core = after,
                        !.delivered[path] = @ + 1,
                        !.transitions[path] = @ + (IF after.wrote THEN 1 ELSE 0),
                        !.notified[path] = @ + after.fired,
                        !.clock[path].deliveredAt = w.now],
                path)
        ELSE w1

\* processEventFile(filePath): a path already processed is skipped; a file
\* that cannot be read or parsed is reported and stays processed; a parsed
\* event is fired to handleHookEvent and the file's cleanup is scheduled
ProcessEventFile(w, path) ==
    LET file == w.files[path].content
        w1 == [w EXCEPT !.processed = @ \cup {path}, !.skipped = FALSE]
        before == [w.core EXCEPT !.fired = 0, !.wrote = FALSE]
        after == HandleHookEvent(before, file.event)
    IN  IF path \in w.processed THEN [w EXCEPT !.skipped = TRUE]
        ELSE IF file.state = "valid"
        THEN ScheduleCleanup(
                [w1 EXCEPT !.core = after,
                        !.delivered[path] = @ + 1,
                        !.transitions[path] = @ + (IF after.wrote THEN 1 ELSE 0),
                        !.notified[path] = @ + after.fired,
                        !.clock[path].deliveredAt = w.now],
                path)
        ELSE w1

\* The number of backlog files replayed on startup (slice(0, 100))
BacklogLimit == 100

\* The existing files sorted by modification time, most recent first.
\* Modification times of existing files are distinct in every directory of
\* this model, so the position of a file is one more than the number of
\* files more recent than it
SortedBacklog(fs, todo) ==
    [i \in 1..Cardinality(todo) |->
        CHOOSE p \in todo :
            Cardinality({q \in todo : fs[q].mtime > fs[p].mtime}) = i - 1]

\* processExistingEvents that replays every file of the directory
BacklogNoLimit(fs) ==
    SortedBacklog(fs, {p \in DOMAIN fs : fs[p].content.state # "absent"})

Backlog(fs) ==
    LET sorted == SortedBacklog(fs, {p \in DOMAIN fs : fs[p].content.state # "absent"})
    IN  SubSeq(sorted, 1, IF Len(sorted) < BacklogLimit THEN Len(sorted)
                          ELSE BacklogLimit)

RECURSIVE ProcessAllStopsOnError(_, _, _)
\* processExistingEvents that gives up at the first file it cannot parse
ProcessAllStopsOnError(w, list, i) ==
    IF i > Len(list) THEN w
    ELSE IF w.files[list[i]].content.state # "valid"
    THEN ProcessEventFile(w, list[i])
    ELSE ProcessAllStopsOnError(ProcessEventFile(w, list[i]), list, i + 1)

RECURSIVE ProcessRange(_, _, _, _)
\* The loop of processExistingEvents over the files lo..hi of the list, in
\* order: the first half of the range, then, once its last file has been
\* through processEventFile, the second half
ProcessRange(w, list, lo, hi) ==
    IF lo > hi THEN w
    ELSE IF lo = hi THEN ProcessEventFile(w, list[lo])
    ELSE LET mid == (lo + hi) \div 2
             half == ProcessRange(w, list, lo, mid)
         IN  IF list[mid] \in half.processed
             THEN ProcessRange(half, list, mid + 1, hi)
             ELSE half

\* processExistingEvents: processEventFile on each backlog file in order
ProcessAll(w, list, i) == ProcessRange(w, list, i, Len(list))

\* The events a producer writes in this specification: a running and a
\* complete one for the registered directory, and one for a directory
\* without agent
WatcherEvents ==
    {e \in HookEvents :
        \/ /\ e.cwd = "dA"
           /\ <<e.hook_event_name, e.notification_type>> \in
                {<<"PreToolUse", NoNotificationType>>,
                 <<"Stop", NoNotificationType>>}
        \/ /\ e.cwd = "dX"
           /\ <<e.hook_event_name, e.notification_type>> = <<"Stop", NoNotificationType>>}

\* The latest modification time in the directory
LatestMtime == CHOOSE m \in {files[p].mtime : p \in Paths} :
                    \A p \in Paths : files[p].mtime <= m

watcherOthers == <<asyncVars, cacheVars, gitVars, mapVars, installerVars>>

WatcherInit ==
    /\ CoreInit(OneAgent) /\ FocusInit(<< >>) /\ WatcherIdle /\ CacheIdle
    /\ GitIdle /\ MapIdle /\ InstallerIdle
    /\ lastOp = NoOp

\* The producer creates a file: complete, malformed, or not yet fully written.
\* File names are unique per write, so a path is created once.
ProducerCreate(path, content) ==
    /\ files[path].content.state = "absent"
    /\ files[path].mtime = 0
    /\ files' = [files EXCEPT ![path] = [content |-> content,
                                         mtime |-> LatestMtime + 1]]
    /\ lastOp' = NoOp
    /\ UNCHANGED <<coreVars, focusVars, started, processedFiles, readTimers,
                   cleanupTimers, delivered, transitions, notified, cleanupClock,
                   watcherOthers>>

\* The producer finishes writing a file
ProducerFinish(path, content) ==
    /\ files[path].content.state = "partial"
    /\ files' = [files EXCEPT ![path] = [content |-> content,
                                         mtime |-> LatestMtime + 1]]
    /\ lastOp' = NoOp
    /\ UNCHANGED <<coreVars, focusVars, started, processedFiles, readTimers,
                   cleanupTimers, delivered, transitions, notified, cleanupClock,
                   watcherOthers>>

\* start() as activate() calls it: the filesystem watcher is created, then
\* processExistingEvents runs before the listeners of extension.ts exist;
\* activate() then registers them and updates the status bar
StartWatcher ==
    /\ ~started
    /\ started' = TRUE
    /\ \E w \in {ProcessAll([CurW EXCEPT !.core.listening = FALSE],
                            Backlog(files), 1)} :
        /\ ~w.core.overflow
        /\ CommitW([w EXCEPT !.core = UpdateStatusBar(w.core)])
    /\ lastOp' = [NoOp EXCEPT !.kind = "start"]
    /\ UNCHANGED <<readTimers, watcherOthers>>

\* onDidCreate / onDidChange fires for a path: handleNewEvent schedules the
\* delayed read
FsNotification(path) ==
    /\ started
    /\ files[path].mtime > 0
    /\ readTimers[path] < MaxNotifications
    /\ readTimers' = [readTimers EXCEPT ![path] = @ + 1]
    /\ lastOp' = NoOp
    /\ UNCHANGED <<coreVars, focusVars, started, files, processedFiles,
                   cleanupTimers, delivered, transitions, notified, cleanupClock,
                   watcherOthers>>

\* A delayed read runs: processEventFile(path)
DelayedRead(path) ==
    /\ readTimers[path] > 0
    /\ readTimers' = [readTimers EXCEPT ![path] = @ - 1]
    /\ \E w \in {ProcessEventFile(CurW, path)} :
        /\ ~w.core.overflow
        /\ CommitW(w)
        /\ lastOp' = [NoOp EXCEPT !.kind = "read", !.path = path,
                                  !.ret = ~w.skipped,
                                  !.fired = w.core.fired, !.wrote = w.core.wrote]
    /\ UNCHANGED <<started, watcherOthers>>

\* The cleanup timer of scheduleCleanup runs: the file is unlinked if it exists
CleanupFile(path) ==
    /\ path \in cleanupTimers
    /\ cleanupTimers' = cleanupTimers \ {path}
    /\ files' = [files EXCEPT ![path].content = AbsentFile]
    /\ lastOp' = NoOp
    /\ UNCHANGED <<coreVars, focusVars, started, processedFiles, readTimers,
                   delivered, transitions, notified, cleanupClock,
                   watcherOthers>>

FileContents == {PartialFile, MalformedFile} \cup {ValidFile(e) : e \in WatcherEvents}

WatcherNext ==
    \/ \E path \in Paths, content \in FileContents : ProducerCreate(path, content)
    \/ \E path \in Paths, content \in FileContents \ {PartialFile} :
            ProducerFinish(path, content)
    \/ StartWatcher
    \/ \E path \in Paths : FsNotification(path)
    \/ \E path \in Paths : DelayedRead(path)
    \/ \E path \in Paths : CleanupFile(path)

SpecWatcher == WatcherInit /\ [][WatcherNext]_vars

\* C3: for every notification file, however many filesystem notifications
\* fired for its path and however their delayed reads interleaved, the
\* watcher delivered at most one HookEvent for the path; a delivered event
\* caused exactly one write of the status map and at most one status-change
\* notification.
C3_IdempotentIngestion ==
    \A path \in Paths :
        /\ delivered[path] <= 1
        /\ transitions[path] = delivered[path]
        /\ notified[path] <= delivered[path]

\* C3 witness: a second delayed read ran for a path whose event had already
\* been delivered, and was skipped
C3_Witness ==
    /\ lastOp.kind = "read" /\ ~lastOp.ret
    /\ delivered[lastOp.path] = 1
    /\ notified[lastOp.path] = 1

\* C20: a read of a file that cannot be parsed (malformed, or not yet fully
\* written) delivers no event and changes no status, and leaves the path in
\* processedFiles; a processed path stays processed and is never delivered
\* later, so no later notification reads it again; and such a file stops no
\* other file: a read of a well-formed file delivers its event, and start()
\* processes every file of the backlog and delivers every well-formed one.
C20_MalformedIsolated ==
    [][/\ (/\ lastOp'.kind = "read" /\ lastOp'.ret
            /\ files[lastOp'.path].content.state # "valid")
            => /\ delivered' = delivered
               /\ UNCHANGED <<agentStatuses, statusBar, prompts>>
               /\ lastOp'.path \in processedFiles'
       /\ (/\ lastOp'.kind = "read" /\ lastOp'.ret
            /\ files[lastOp'.path].content.state = "valid")
            => delivered'[lastOp'.path] = 1
       /\ \A path \in processedFiles :
            path \in processedFiles' /\ delivered'[path] = delivered[path]
       /\ (~started /\ started')
            => \A path \in Paths :
                files[path].content.state # "absent"
                    => /\ path \in processedFiles'
                       /\ files[path].content.state = "valid"
                            => delivered'[path] = 1]_vars

\* C20 witness: start() found the malformed f2 as the newest file of the
\* backlog and the well-formed f1 behind it: f2 is processed and not
\* delivered, f1 is delivered
C20_Witness ==
    /\ lastOp.kind = "start"
    /\ files["f2"].content = MalformedFile /\ files["f2"].mtime > files["f1"].mtime
    /\ "f2" \in processedFiles /\ delivered["f2"] = 0
    /\ delivered["f1"] = 1 /\ transitions["f1"] = 1

\* The well-formed files of the directory that hold an event of directory d
EventFilesOf(d) ==
    {p \in Paths : /\ files[p].content.state = "valid"
                   /\ files[p].content.event.cwd = d}

\* C32: after start() has replayed the backlog, every directory with event
\* files in the backlog has the table status of the most recently modified
\* of its files.
C32_ReplayNewestWins ==
    lastOp.kind = "start" =>
        \A d \in Dirs :
            \A p \in EventFilesOf(d) :
                (\A q \in EventFilesOf(d) : files[q].mtime <= files[p].mtime)
                    => StatusOf(d) =
                        TableStatus(files[p].content.event.hook_event_name,
                                    files[p].content.event.notification_type)

\* C33: a file that ends up completely written with valid JSON is
\* delivered, also when its first delayed read saw it partly written: once
\* the delayed read of a later change notification has run on the complete
\* file, its event has been delivered.
C33_CompleteFileDelivered ==
    \A path \in Paths :
        (/\ lastOp.kind = "read" /\ lastOp.path = path
         /\ files[path].content.state = "valid")
            => delivered[path] = 1

----------------------------------------------------------------------------
(* SpecRestart: the watcher over an extension host that stops and starts   *)
(* again while event files are in the directory.                           *)

\* The deliveries of one file after which the host is not restarted again
MaxDeliveries == 2

\* The extension host stops and activate() runs again up to
\* hookWatcher.start(): dispose() clears processedFiles; the pending
\* setTimeout callbacks (delayed reads, cleanups) end with the host; the new
\* provider and notification service start empty; storage, globalState and
\* the events directory persist
RestartWatcher ==
    /\ started
    /\ \A path \in Paths : delivered[path] < MaxDeliveries
    /\ started' = FALSE
    /\ processedFiles' = {}
    /\ readTimers' = [path \in Paths |-> 0]
    /\ cleanupTimers' = {}
    /\ cleanupClock' = [path \in Paths |-> NoClock]
    /\ agentStatuses' = [d \in Dirs |-> NoStatus]
    /\ statusBar' = StatusCounts([agents |-> agents,
                                  st |-> [d \in Dirs |-> NoStatus]])
    /\ prompts' = [t \in Tokens |-> EmptyPrompt]
    /\ pendingNotifications' = [a \in AgentIds |-> NoToken]
    /\ focusedAgentId' = RestoredFocus(globalState).fAgent
    /\ focusedFolderUri' = RestoredFocus(globalState).fUri
    /\ lastOp' = [NoOp EXCEPT !.kind = "restartWatcher"]
    /\ UNCHANGED <<agents, terminals, globalState, workspaceFolders, files,
                   delivered, transitions, notified, watcherOthers>>

RestartNext ==
    \/ \E path \in Paths, event \in WatcherEvents :
            ProducerCreate(path, ValidFile(event))
    \/ StartWatcher
    \/ \E path \in Paths : FsNotification(path)
    \/ \E path \in Paths : DelayedRead(path)
    \/ \E path \in Paths : CleanupFile(path)
    \/ RestartWatcher

SpecRestart == WatcherInit /\ [][RestartNext]_vars

\* C36: no file is delivered more than once, also across a stop and a
\* restart of the watcher: a file delivered before the restart and still in
\* the directory is not delivered again by the replay.
C36_OnceAcrossRestart ==
    \A path \in Paths : delivered[path] <= 1

----------------------------------------------------------------------------
(* SpecBacklog: start() on an events directory that holds about as many    *)
(* files as the backlog limit, left there while the extension was not      *)
(* running.  The files are numbered; their modification times follow one   *)
(* of a few orders; every file holds a PreToolUse event of the registered  *)
(* directory, or every seventh file is malformed.                          *)

MaxBacklogFiles == 102
MaxStep == 6

BacklogPaths == 1..MaxBacklogFiles

\* The directory with n files, file i modified at (i * step) mod (n + 1)
BacklogDir(n, step, malformed) ==
    [i \in BacklogPaths |->
        IF i > n THEN [content |-> AbsentFile, mtime |-> 0]
        ELSE [content |-> IF malformed /\ i % 7 = 0 THEN MalformedFile
                          ELSE ValidFile([cwd |-> "dA",
                                          hook_event_name |-> "PreToolUse",
                                          notification_type |-> NoNotificationType]),
              mtime |-> ((i * step) % (n + 1)) * (MaxBacklogFiles + 1) + i]]

BacklogInit ==
    /\ CoreInit(OneAgent) /\ FocusInit(<< >>) /\ CacheIdle /\ GitIdle /\ MapIdle
    /\ InstallerIdle
    /\ started = FALSE
    /\ \E n \in (MaxBacklogFiles - 4)..MaxBacklogFiles, step \in 1..MaxStep,
          malformed \in BOOLEAN :
            files = BacklogDir(n, step, malformed)
    /\ processedFiles = {}
    /\ readTimers = [p \in BacklogPaths |-> 0]
    /\ cleanupTimers = {}
    /\ delivered = [p \in BacklogPaths |-> 0]
    /\ transitions = [p \in BacklogPaths |-> 0]
    /\ notified = [p \in BacklogPaths |-> 0]
    /\ cleanupClock = [p \in BacklogPaths |-> NoClock]
    /\ lastOp = NoOp

\* The cleanup timers scheduled by the replay were all set in the one
\* synchronous run of processExistingEvents with the same delay: they run
\* one after the other with nothing of the extension in between
CleanupAfterReplay ==
    /\ cleanupTimers # {}
    /\ cleanupTimers' = {}
    /\ files' = [p \in DOMAIN files |->
                    IF p \in cleanupTimers
                    THEN [files[p] EXCEPT !.content = AbsentFile] ELSE files[p]]
    /\ lastOp' = [NoOp EXCEPT !.kind = "cleanup"]
    /\ UNCHANGED <<coreVars, focusVars, started, processedFiles, readTimers,
                   delivered, transitions, notified, cleanupClock,
                   watcherOthers>>

BacklogNext == StartWatcher \/ CleanupAfterReplay

SpecBacklog ==
    /\ BacklogInit /\ [][BacklogNext]_vars
    /\ WF_vars(CleanupAfterReplay)

\* The backlog files of the directory
Existing == {p \in DOMAIN files : files[p].mtime > 0}

\* C21: start() replays at most BacklogLimit files, all of them when there
\* are no more than that; every replayed file is at least as recent as
\* every file left out, and no file left out is delivered.
C21_BacklogBound ==
    started =>
        /\ Cardinality(processedFiles) <= BacklogLimit
        /\ Cardinality(Existing) <= BacklogLimit => processedFiles = Existing
        /\ Cardinality(Existing) > BacklogLimit
                => Cardinality(processedFiles) = BacklogLimit
        /\ \A p \in processedFiles, q \in Existing \ processedFiles :
                files[p].mtime >= files[q].mtime
        /\ \A q \in Existing \ processedFiles : delivered[q] = 0

\* C21 witness: the directory held 102 files at start(): 100 were replayed,
\* and the two left out were not delivered
C21_Witness ==
    /\ lastOp.kind = "start"
    /\ Cardinality(Existing) = BacklogLimit + 2
    /\ Cardinality(processedFiles) = BacklogLimit
    /\ \E p \in processedFiles : delivered[p] = 1

\* C22 (as claimed): after start(), every backlog file that was not
\* replayed is eventually removed from the events directory.
C22_OlderFilesCleaned ==
    started ~> (\A p \in BacklogPaths :
                    p \in processedFiles \/ files[p].content.state = "absent")

----------------------------------------------------------------------------
(* SpecCleanup: the watcher of SpecWatcher with a clock in seconds. The    *)
(* timer of scheduleCleanup runs when the clock has reached its due time,  *)
(* and the clock does not pass a due timer.                                *)

\* The producer stops writing at this time; the clock goes on while a
\* cleanup timer is pending
MaxClock == 2

\* One second passes
CleanupTick ==
    /\ \/ now < MaxClock
       \/ cleanupTimers # {}
    /\ \A p \in cleanupTimers : cleanupClock[p].due > now
    /\ now' = now + 1
    /\ lastOp' = [NoOp EXCEPT !.kind = "tick"]
    /\ UNCHANGED <<coreVars, focusVars, watcherVars, asyncVars, gitVars, mapVars,
                   installerVars,
                   changedFilesCache, cacheTimers, inflight, repoVersion,
                   fillInfo, queryLog, gitQueries>>

\* The timer callback of scheduleCleanup runs at its due time: the file is
\* unlinked if it exists
CleanupTimerFires(path) ==
    /\ path \in cleanupTimers
    /\ cleanupClock[path].due <= now
    /\ cleanupTimers' = cleanupTimers \ {path}
    /\ files' = [files EXCEPT ![path].content = AbsentFile]
    /\ lastOp' = [NoOp EXCEPT !.kind = "cleanupDue", !.path = path]
    /\ UNCHANGED <<coreVars, focusVars, started, processedFiles, readTimers,
                   delivered, transitions, notified, cleanupClock,
                   watcherOthers>>

\* The producer writes while the clock is within its bound
TimedProducerCreate(path, content) ==
    /\ now < MaxClock
    /\ ProducerCreate(path, content)

CleanupContents ==
    {PartialFile,
     ValidFile([cwd |-> "dA", hook_event_name |-> "PreToolUse",
                notification_type |-> NoNotificationType])}

CleanupNext ==
    \/ \E path \in Paths, content \in CleanupContents :
            TimedProducerCreate(path, content)
    \/ StartWatcher
    \/ \E path \in Paths : FsNotification(path)
    \/ \E path \in Paths : DelayedRead(path)
    \/ \E path \in Paths : CleanupTimerFires(path)
    \/ CleanupTick

SpecCleanup ==
    /\ WatcherInit /\ [][CleanupNext]_vars
    /\ WF_vars(CleanupTick)
    /\ \A path \in Paths : WF_vars(CleanupTimerFires(path))

----------------------------------------------------------------------------
(* SpecFocus: the workspace manager over the folder list of the window,    *)
(* for two stored agents (a1 in dA, a2 in dB) and an unrelated folder dX.  *)
(* The environment accepts or rejects each requested folder list update;   *)
(* the user adds and removes folders; the extension host restarts.         *)

focusOthers == <<watcherVars, cacheVars, gitVars, mapVars, installerVars>>

NoDuplicates(folders) ==
    \A i, j \in 1..Len(folders) : folders[i] = folders[j] => i = j

FocusSpecInit ==
    /\ CoreInit(InitialAgents) /\ WatcherIdle /\ CacheIdle /\ GitIdle /\ MapIdle
    /\ InstallerIdle
    /\ \E folders \in {<< >>, <<"dX">>} : FocusInit(folders)
    /\ lastOp = NoOp

\* What a workspace manager call did: its result, whether it asked for a
\* folder list update and what the environment answered
FocusOp(kind, agentId, r, accept) ==
    [NoOp EXCEPT !.kind = kind, !.agentId = agentId, !.ret = r.ret,
                 !.asked = r.asked, !.accepted = r.asked /\ accept,
                 !.prev = focusedAgentId, !.prevDir = focusedFolderUri]

\* agentFleet.focusWorkspace for a stored agent
FocusAgent(agentId, accept) ==
    /\ GetAgent(Cur, agentId) # NoAgentRec
    /\ \E s \in {FocusWorkspaceCmd(Cur, agentId, accept)} : Commit(s)
    /\ lastOp' = FocusOp("focus", agentId,
                         FocusWorkspace(Cur, GetAgent(Cur, agentId), accept), accept)
    /\ UNCHANGED <<asyncVars, focusOthers>>

\* agentFleet.showAgentQuickPick, "Focus Workspace": focusWorkspace alone
QuickPickFocus(agentId, accept) ==
    /\ GetAgent(Cur, agentId) # NoAgentRec
    /\ \E r \in {FocusWorkspace(Cur, GetAgent(Cur, agentId), accept)} :
        /\ Commit(r.s)
        /\ lastOp' = FocusOp("quickPickFocus", agentId, r, accept)
    /\ UNCHANGED <<asyncVars, focusOthers>>

\* agentFleet.unfocusWorkspace
UnfocusCommand(accept) ==
    /\ \E r \in {IF focusedAgentId = NoAgent
                 THEN [s |-> Cur, ret |-> TRUE, asked |-> FALSE]
                 ELSE UnfocusWorkspace(Cur, accept)} :
        /\ Commit(r.s)
        /\ lastOp' = FocusOp("unfocus", NoAgent, r, accept)
    /\ UNCHANGED <<asyncVars, focusOthers>>

\* workspaceManager.unfocusWorkspace() itself, whatever the focus
UnfocusCall(accept) ==
    /\ \E r \in {UnfocusWorkspace(Cur, accept)} :
        /\ Commit(r.s)
        /\ lastOp' = FocusOp("unfocusCall", NoAgent, r, accept)
    /\ UNCHANGED <<asyncVars, focusOthers>>

\* agentFleet.openTerminal, as in Spec
FocusOpenTerminal(agentId) ==
    /\ \E s \in {OpenTerminalCmd(Cur, agentId)} : Commit(s)
    /\ lastOp' = [NoOp EXCEPT !.kind = "openTerminal", !.agentId = agentId]
    /\ UNCHANGED <<asyncVars, focusOthers>>

\* storage.removeAgent: the stored list without the agent
RemoveStored(s, agentId) ==
    [s EXCEPT !.agents = SelectSeq(s.agents, LAMBDA a : a.id # agentId)]

\* agentFleet.removeAgent once confirmed, up to its await on storage: the
\* terminal is closed, the workspace manager is told, the agent is removed
RemoveAgent(agentId, accept) ==
    /\ GetAgent(Cur, agentId) # NoAgentRec
    /\ \E s \in {RemoveStored(
                    OnAgentRemoved(CloseTerminal(Cur, agentId), agentId, accept),
                    agentId)} :
        /\ Commit(s)
        /\ lastOp' = [FocusOp("remove", agentId,
                        IF focusedAgentId = agentId
                        THEN UnfocusWorkspace(Cur, accept)
                        ELSE [s |-> Cur, ret |-> TRUE, asked |-> FALSE], accept)
                      EXCEPT !.dir = DirOf(agentId),
                             !.sameFocus = /\ s.fAgent = focusedAgentId
                                           /\ s.fUri = focusedFolderUri
                                           /\ s.gs = globalState
                                           /\ s.folders = workspaceFolders]
    /\ refreshDue' = refreshDue + 1
    /\ UNCHANGED addVars
    /\ UNCHANGED focusOthers

\* agentFleet.removeAgent after its await: treeProvider.refresh()
RemoveAgentRefresh ==
    /\ refreshDue > 0
    /\ refreshDue' = refreshDue - 1
    /\ UNCHANGED addVars
    /\ \E s \in {Refresh(Cur)} : Commit(s)
    /\ lastOp' = [NoOp EXCEPT !.kind = "refresh"]
    /\ UNCHANGED focusOthers

\* The user adds a folder to the window (the window holds a folder once)
UserAddsFolder(dir) ==
    /\ FolderIndex(workspaceFolders, dir) = 0
    /\ workspaceFolders' = Append(workspaceFolders, dir)
    /\ lastOp' = [NoOp EXCEPT !.kind = "external"]
    /\ UNCHANGED <<coreVars, asyncVars, focusedAgentId, focusedFolderUri,
                   globalState, focusOthers>>

\* The user removes a folder from the window
UserRemovesFolder(i) ==
    /\ i \in 1..Len(workspaceFolders)
    /\ workspaceFolders' = UpdateWorkspaceFolders(workspaceFolders, i, 1, << >>)
    /\ lastOp' = [NoOp EXCEPT !.kind = "external"]
    /\ UNCHANGED <<coreVars, asyncVars, focusedAgentId, focusedFolderUri,
                   globalState, focusOthers>>

\* The extension host restarts and activate() runs again: statuses, prompts
\* and pending continuations are gone, terminals the window kept are
\* reclaimed, storage and globalState persist
Restart ==
    /\ agents' = agents
    /\ agentStatuses' = [d \in Dirs |-> NoStatus]
    /\ statusBar' = StatusCounts([agents |-> agents,
                                  st |-> [d \in Dirs |-> NoStatus]])
    /\ prompts' = [t \in Tokens |-> EmptyPrompt]
    /\ pendingNotifications' = [a \in AgentIds |-> NoToken]
    /\ \E kept \in SUBSET terminals : terminals' = kept
    /\ refreshDue' = 0
    /\ UNCHANGED addVars
    /\ focusedAgentId' = RestoredFocus(globalState).fAgent
    /\ focusedFolderUri' = RestoredFocus(globalState).fUri
    /\ lastOp' = [NoOp EXCEPT !.kind = "restart", !.prev = focusedAgentId]
    /\ UNCHANGED <<globalState, workspaceFolders, focusOthers>>

FocusNext ==
    \/ \E a \in AgentIds, accept \in BOOLEAN : FocusAgent(a, accept)
    \/ \E a \in AgentIds, accept \in BOOLEAN : QuickPickFocus(a, accept)
    \/ \E accept \in BOOLEAN : UnfocusCommand(accept)
    \/ \E accept \in BOOLEAN : UnfocusCall(accept)
    \/ \E a \in AgentIds : FocusOpenTerminal(a)
    \/ \E a \in AgentIds, accept \in BOOLEAN : RemoveAgent(a, accept)
    \/ RemoveAgentRefresh
    \/ \E dir \in Dirs : UserAddsFolder(dir)
    \/ \E i \in 1..3 : UserRemovesFolder(i)
    \/ Restart

SpecFocus == FocusSpecInit /\ [][FocusNext]_vars

\* The operations that end in workspaceManager.focusWorkspace
FocusKinds == {"focus", "quickPickFocus"}

\* C4: at every point at most one stored session is the focused one, and the
\* workspace folder list holds no directory twice.
C4_SingleFocus ==
    /\ Cardinality({i \in 1..Len(agents) : focusedAgentId = agents[i].id}) <= 1
    /\ NoDuplicates(workspaceFolders)

\* C4 witness: focus(a2) was accepted while a1 was focused, and replaced a1's
\* folder behind the unrelated folder dX
C4_Witness ==
    /\ lastOp.kind = "focus" /\ lastOp.agentId = "a2" /\ lastOp.prev = "a1"
    /\ lastOp.accepted /\ focusedAgentId = "a2"
    /\ workspaceFolders = <<"dX", "dB">>

\* C9: when the environment rejects the folder list update that focus
\* requested, focus returns failure and FocusState (in memory and persisted)
\* and the folder list are what they were before the call.
C9_FocusAllOrNothing ==
    [][(lastOp'.kind \in FocusKinds /\ lastOp'.asked /\ ~lastOp'.accepted)
        => /\ ~lastOp'.ret
           /\ UNCHANGED <<focusedAgentId, focusedFolderUri, globalState,
                          workspaceFolders>>]_vars

\* C9 witness: focus(a2) was rejected while a1 was focused
C9_Witness ==
    /\ lastOp.kind = "quickPickFocus" /\ lastOp.agentId = "a2" /\ lastOp.prev = "a1"
    /\ lastOp.asked /\ ~lastOp.accepted /\ ~lastOp.ret
    /\ focusedAgentId = "a1" /\ FolderIndex(workspaceFolders, "dA") > 0

\* FocusState, in memory and persisted, is cleared after the step
FocusCleared ==
    /\ focusedAgentId' = NoAgent /\ focusedFolderUri' = NoDir
    /\ globalState' = NoFocus

FocusFrame == <<focusedAgentId, focusedFolderUri, globalState, workspaceFolders>>

C14_RemovalUnfocuses ==
    /\ focusedAgentId # NoAgent => GetAgent(Cur, focusedAgentId) # NoAgentRec
    /\ globalState.focusedAgentId # NoAgent
            => GetAgent(Cur, globalState.focusedAgentId) # NoAgentRec
    /\ lastOp.kind = "remove" =>
            IF lastOp.prev = lastOp.agentId
            THEN FolderIndex(workspaceFolders, lastOp.dir) = 0
            ELSE lastOp.sameFocus

\* FocusState, in memory and persisted, names the agent and its directory
\* after the step
FocusedOn(agentId, dir) ==
    /\ focusedAgentId' = agentId /\ focusedFolderUri' = dir
    /\ globalState' = [focusedAgentId |-> agentId, focusedFolderPath |-> dir]

\* C15: focusWorkspace on the agent that is already focused returns success
\* and leaves FocusState and the folder list unchanged, so a second focus of
\* the same agent adds nothing to the first.
C15_FocusIdempotent ==
    [][(lastOp'.kind \in FocusKinds /\ lastOp'.agentId = focusedAgentId)
        => lastOp'.ret /\ UNCHANGED FocusFrame]_vars

\* C15 witness: a1 was focused, its folder had left the list, and a1 was
\* focused again: a1 is still focused and the list is still empty
C15_Witness ==
    /\ lastOp.kind \in FocusKinds /\ lastOp.agentId = "a1" /\ lastOp.prev = "a1"
    /\ lastOp.ret /\ ~lastOp.asked
    /\ focusedAgentId = "a1" /\ workspaceFolders = << >>

C17_SingleSplice ==
    [][(lastOp'.kind \in FocusKinds /\ lastOp'.accepted)
        => LET i == FolderIndex(workspaceFolders, focusedFolderUri)
               new == DirOf(lastOp'.agentId)
           IN  /\ (focusedFolderUri # NoDir /\ i > 0)
                    => workspaceFolders' = [workspaceFolders EXCEPT ![i] = new]
               /\ focusedFolderUri = NoDir
                    => workspaceFolders' = Append(workspaceFolders, new)]_vars

\* C17 witness: a1 was focused with its folder in front of dX, and a2 was
\* focused: dB stands where dA stood
C17_Witness ==
    /\ lastOp.kind \in FocusKinds /\ lastOp.agentId = "a2" /\ lastOp.prev = "a1"
    /\ lastOp.accepted /\ lastOp.ret
    /\ workspaceFolders = <<"dB", "dX">>

\* C18 (as claimed): after focusWorkspace succeeded for an agent while a
\* different agent was focused, the folder of the previously focused agent
\* is not in the folder list.
C18_PreviousFolderRemoved ==
    (/\ lastOp.kind \in FocusKinds /\ lastOp.ret
     /\ lastOp.prev # NoAgent /\ lastOp.prev # lastOp.agentId)
        => FolderIndex(workspaceFolders, lastOp.prevDir) = 0

\* C10: in every reachable state of the workspace manager, focusedAgentId is
\* set if and only if focusedFolderUri is set.
C10_FocusPairSet ==
    (focusedAgentId # NoAgent) <=> (focusedFolderUri # NoDir)

\* C10 witness: the manager was constructed from persisted state that named
\* a focused agent, after that agent had been removed from storage
C10_Witness ==
    /\ lastOp.kind = "restart"
    /\ focusedAgentId = "a1" /\ focusedFolderUri = "dA"
    /\ GetAgent(Cur, "a1") = NoAgentRec

\* C30: in every state, so after every focus and unfocus, the pair persisted
\* in globalState is the pair the manager holds in memory; and the manager
\* constructed by a restart holds the focused agent and folder the manager
\* before it held.
C30_FocusPersisted ==
    /\ [](globalState = [focusedAgentId |-> focusedAgentId,
                         focusedFolderPath |-> focusedFolderUri])
    /\ [][lastOp'.kind = "restart" =>
            /\ focusedAgentId' = focusedAgentId
            /\ focusedFolderUri' = focusedFolderUri]_vars

\* C30 witness: a restart while the stored agent a1 was focused on dA
C30_Witness ==
    /\ lastOp.kind = "restart" /\ lastOp.prev = "a1"
    /\ focusedAgentId = "a1" /\ focusedFolderUri = "dA"
    /\ globalState = [focusedAgentId |-> "a1", focusedFolderPath |-> "dA"]
    /\ GetAgent(Cur, "a1") # NoAgentRec

----------------------------------------------------------------------------
(* SpecCache: getChangedFilesForAgent over a clock.  A call that misses     *)
(* starts a repository-status query and awaits it; the agents keep writing  *)
(* to their repositories; expiry timers fire when they are due.  One agent  *)
(* is stored.                                                              *)

CacheTtl == 5
MaxTime == 6
MaxInflight == 2
MaxVersion == 1
MaxGitQueries == 3

cacheOthers == <<coreVars, asyncVars, focusVars, watcherVars, gitVars, mapVars,
                 installerVars, lastOp>>

CacheInit ==
    /\ CoreInit(OneAgent) /\ FocusInit(<< >>) /\ WatcherIdle /\ CacheIdle
    /\ GitIdle /\ MapIdle /\ InstallerIdle
    /\ lastOp = NoOp

\* getChangedFilesForAgent up to its return or its await: a cached entry
\* (an empty change set too) is returned, otherwise gitService.getChangedFiles
\* is started
QueryChangedFiles(agentId) ==
    LET cached == changedFilesCache[agentId] IN
    /\ GetAgent(Cur, agentId) # NoAgentRec
    /\ queryLog' = [issued |-> TRUE, agentId |-> agentId, at |-> now,
                    hit |-> cached.live, files |-> cached.files,
                    fill |-> fillInfo[agentId]]
    /\ IF cached.live
       THEN UNCHANGED <<inflight, gitQueries>>
       ELSE /\ inflight[agentId] < MaxInflight
            /\ gitQueries < MaxGitQueries
            /\ inflight' = [inflight EXCEPT ![agentId] = @ + 1]
            /\ gitQueries' = gitQueries + 1
    /\ UNCHANGED <<now, changedFilesCache, cacheTimers, repoVersion, fillInfo,
                   cacheOthers>>

\* getChangedFilesForAgent after its await: the result is stored and its
\* expiry is scheduled CacheTtl later
QueryCompletes(agentId) ==
    /\ inflight[agentId] > 0
    /\ inflight' = [inflight EXCEPT ![agentId] = @ - 1]
    /\ changedFilesCache' = [changedFilesCache EXCEPT ![agentId] =
                                [live |-> TRUE, files |-> repoVersion[agentId]]]
    /\ cacheTimers' = cacheTimers \cup
                        {[agentId |-> agentId, due |-> now + CacheTtl]}
    /\ fillInfo' = [fillInfo EXCEPT ![agentId] =
                        [live |-> TRUE, at |-> now,
                         files |-> repoVersion[agentId], cleared |-> FALSE]]
    /\ UNCHANGED <<now, repoVersion, queryLog, gitQueries, cacheOthers>>

\* The setTimeout callback: changedFilesCache.delete(agent.id)
ExpiryTimerFires(timer) ==
    /\ timer \in cacheTimers
    /\ timer.due = now
    /\ cacheTimers' = cacheTimers \ {timer}
    /\ changedFilesCache' = [changedFilesCache EXCEPT ![timer.agentId] = NoEntry]
    /\ UNCHANGED <<now, inflight, repoVersion, fillInfo, queryLog, gitQueries,
                   cacheOthers>>

\* clearCache(): changedFilesCache.clear()
ClearCache(cache) == [a \in AgentIds |-> NoEntry]

\* agentFleet.refreshAgents: clearCache() and refresh()
RefreshAgents ==
    /\ changedFilesCache' = ClearCache(changedFilesCache)
    /\ fillInfo' = [a \in AgentIds |-> [fillInfo[a] EXCEPT !.cleared = TRUE]]
    /\ \E s \in {Refresh(Cur)} : Commit(s)
    /\ UNCHANGED <<now, cacheTimers, inflight, repoVersion, queryLog,
                   gitQueries, asyncVars, watcherVars, gitVars, mapVars,
                   installerVars, lastOp>>

\* An agent changes a file of its working tree
RepoChanges(agentId) ==
    /\ GetAgent(Cur, agentId) # NoAgentRec
    /\ repoVersion[agentId] < MaxVersion
    /\ repoVersion' = [repoVersion EXCEPT ![agentId] = @ + 1]
    /\ UNCHANGED <<now, changedFilesCache, cacheTimers, inflight, fillInfo,
                   queryLog, gitQueries, cacheOthers>>

\* A second passes, once the timers due now have run
Tick ==
    /\ now < MaxTime
    /\ \A timer \in cacheTimers : timer.due # now
    /\ now' = now + 1
    /\ UNCHANGED <<changedFilesCache, cacheTimers, inflight, repoVersion,
                   fillInfo, queryLog, gitQueries, cacheOthers>>

CacheNext ==
    \/ \E a \in AgentIds : QueryChangedFiles(a)
    \/ \E a \in AgentIds : QueryCompletes(a)
    \/ \E timer \in cacheTimers : ExpiryTimerFires(timer)
    \/ RefreshAgents
    \/ \E a \in AgentIds : RepoChanges(a)
    \/ Tick

SpecCache == CacheInit /\ [][CacheNext]_vars

\* C7: a change-set query issued after an underlying query for the same
\* agent completed, less than CacheTtl after it and with no clearCache in
\* between, is served from the cache with that query's result and starts no
\* second underlying query; one issued more than CacheTtl after the last
\* completed underlying query starts a fresh one.
C7_CacheTtl ==
    (queryLog.issued /\ queryLog.fill.live /\ ~queryLog.fill.cleared)
        => /\ queryLog.at - queryLog.fill.at < CacheTtl
                => queryLog.hit /\ queryLog.files = queryLog.fill.files
           /\ queryLog.at - queryLog.fill.at > CacheTtl
                => ~queryLog.hit

\* C24 (as claimed): change-set queries for one agent that overlap share one
\* repository-status query: no second one is started while one is in
\* flight.
C24_SingleFlight ==
    \A a \in AgentIds : inflight[a] <= 1

\* C25 (as claimed): only its expiry timer removes a cache entry: an entry
\* stored less than CacheTtl ago is still in the cache.
C25_EvictedOnlyByTimer ==
    \A a \in AgentIds :
        (fillInfo[a].live /\ now - fillInfo[a].at < CacheTtl)
            => changedFilesCache[a].live

\* C35: a cache entry stays in the cache for its full time to live: while
\* the entry stored last for an agent is younger than CacheTtl and no
\* clearCache has run since it was stored, the cache still holds it; an
\* expiry timer set for an earlier entry of the agent does not remove it.
C35_FullTtl ==
    \A a \in AgentIds :
        (/\ fillInfo[a].live /\ ~fillInfo[a].cleared
         /\ now - fillInfo[a].at < CacheTtl)
            => /\ changedFilesCache[a].live
               /\ changedFilesCache[a].files = fillInfo[a].files

----------------------------------------------------------------------------
(* SpecGit: GitService.getChangedFiles on one directory, for every small    *)
(* status report and every arrangement of child repository roots.           *)

ChildRoots == {"r1", "r2"}
FileLists == {<< >>, <<"x.ts">>}
RenameLists == {<< >>, << [from |-> "x.ts", to |-> "y.ts"] >>}

\* The file a child repository root reports as modified
ChildFile == "m.ts"

GitInputs ==
    [directory : {"dA"}, isRepo : BOOLEAN,
     status : [modified : FileLists, created : FileLists, deleted : FileLists,
               not_added : FileLists, renamed : RenameLists,
               conflicted : FileLists],
     children : [ChildRoots -> {"none", "modified", "fails"}]]

\* One ChangedFile: path as its segments, status letter, absolutePath as the
\* directory joined with the path
ChangedFile(directory, file, letter) ==
    [path |-> <<file>>, status |-> letter,
     absolutePath |-> <<directory, file>>]

ChangedFilesOf(directory, list, letter) ==
    [i \in 1..Len(list) |-> ChangedFile(directory, list[i], letter)]

\* getChangedFiles(directory): git status of that directory alone, its
\* categories in the order M, A, D, ?, R, U; a status that throws gives []
GetChangedFiles(directory, input) ==
    IF ~input.isRepo
    THEN << >>
    ELSE ChangedFilesOf(directory, input.status.modified, "M")
         \o ChangedFilesOf(directory, input.status.created, "A")
         \o ChangedFilesOf(directory, input.status.deleted, "D")
         \o ChangedFilesOf(directory, input.status.not_added, "?")
         \o ChangedFilesOf(directory,
                [i \in 1..Len(input.status.renamed) |->
                    input.status.renamed[i].to], "R")
         \o ChangedFilesOf(directory, input.status.conflicted, "U")

gitOthers == <<coreVars, asyncVars, focusVars, watcherVars, cacheVars, mapVars,
               installerVars, lastOp>>

GitInit ==
    /\ CoreInit(InitialAgents) /\ FocusInit(<< >>) /\ WatcherIdle /\ CacheIdle
    /\ MapIdle /\ InstallerIdle
    /\ gitInput \in GitInputs
    /\ gitResult = NoGitResult
    /\ lastOp = NoOp

\* gitService.getChangedFiles(agent.directory)
QueryGitStatus ==
    /\ ~gitResult.done
    /\ gitResult' = [done |-> TRUE,
                     files |-> GetChangedFiles(gitInput.directory, gitInput)]
    /\ UNCHANGED <<gitInput, gitOthers>>

GitNext == QueryGitStatus

SpecGit == GitInit /\ [][GitNext]_vars

\* The paths of a result
PathsOf(result) == {result[i].path : i \in 1..Len(result)}

\* C8: for a directory that is not a repository and has the two child
\* repository roots r1 and r2, each reporting one modified file, the result
\* has exactly two entries, r1/m.ts and r2/m.ts; when one of the two fails
\* the result still has the entry of the other.
C8_MultiRootMerge ==
    (gitResult.done /\ ~gitInput.isRepo)
        => /\ (\A r \in ChildRoots : gitInput.children[r] = "modified")
                => /\ Len(gitResult.files) = 2
                   /\ PathsOf(gitResult.files) = {<<r, ChildFile>> : r \in ChildRoots}
           /\ \A r, q \in ChildRoots :
                (gitInput.children[r] = "modified" /\ gitInput.children[q] = "fails")
                    => <<r, ChildFile>> \in PathsOf(gitResult.files)


----------------------------------------------------------------------------
(* SpecStorage: the agentFleet.addAgent and agentFleet.removeAgent         *)
(* commands on an empty storage.  An add command waits for its directory   *)
(* dialog, then for storage; several may wait at once.                     *)

\* removeAgent handlers that may await storage at once
MaxRefreshes == 1

storageOthers == <<focusVars, watcherVars, cacheVars, gitVars, mapVars,
                   installerVars>>

StorageInit ==
    /\ CoreInit(<< >>) /\ FocusInit(<< >>) /\ WatcherIdle /\ CacheIdle
    /\ GitIdle /\ MapIdle /\ InstallerIdle
    /\ lastOp = NoOp

\* storage.addAgent: the stored list with the agent pushed
AddStored(s, agent) == [s EXCEPT !.agents = Append(@, agent)]

\* agentFleet.addAgent after the dialog without the check for an agent of
\* the directory
AddAgentNoExistingCheck(s, directory, id) ==
    [s |-> AddStored(s, [id |-> id, directory |-> directory]), ret |-> TRUE]

\* agentFleet.addAgent after the dialog, up to its await on storage: a
\* directory that has an agent is refused with a warning, otherwise the new
\* agent is stored
AddAgent(s, directory, id) ==
    IF GetAgentByDirectory(s, directory) # NoAgentRec
    THEN [s |-> s, ret |-> FALSE]
    ELSE [s |-> AddStored(s, [id |-> id, directory |-> directory]), ret |-> TRUE]

\* AgentStorage.generateId(): an id no stored or awaited agent has
FreshIds ==
    {id \in AgentIds : GetAgent(Cur, id) = NoAgentRec /\ id \notin addDue}

\* The command is invoked: showOpenDialog is awaited
AddAgentCommand(k) ==
    /\ ~addDialogs[k].open
    /\ addDialogs' = [addDialogs EXCEPT ![k] = [open |-> TRUE, addedSince |-> {}]]
    /\ lastOp' = [NoOp EXCEPT !.kind = "addCommand"]
    /\ UNCHANGED <<coreVars, refreshDue, addDue, storageOthers>>

\* The user closes the dialog without a directory
AddDialogCancelled(k) ==
    /\ addDialogs[k].open
    /\ addDialogs' = [addDialogs EXCEPT ![k] = NoDialog]
    /\ lastOp' = [NoOp EXCEPT !.kind = "addCancelled"]
    /\ UNCHANGED <<coreVars, refreshDue, addDue, storageOthers>>

\* The user picks a directory in the dialog
AddDialogPicks(k, directory, id) ==
    /\ addDialogs[k].open
    /\ id \in FreshIds
    /\ \E r \in {AddAgent(Cur, directory, id)} :
        /\ Commit(r.s)
        /\ addDue' = IF r.ret THEN addDue \cup {id} ELSE addDue
        /\ addDialogs' =
            [j \in DialogIds |->
                IF j = k THEN NoDialog
                ELSE IF addDialogs[j].open /\ r.ret
                THEN [addDialogs[j] EXCEPT !.addedSince = @ \cup {directory}]
                ELSE addDialogs[j]]
        /\ lastOp' = [NoOp EXCEPT !.kind = "addPicked", !.dir = directory,
                                  !.agentId = id, !.ret = r.ret,
                                  !.stale = directory \in addDialogs[k].addedSince]
    /\ UNCHANGED <<refreshDue, watcherVars, cacheVars, gitVars, mapVars,
                   installerVars>>

\* agentFleet.addAgent after its await on storage: the terminal of the new
\* agent is created and the tree is refreshed
AddAgentContinues(id) ==
    /\ id \in addDue
    /\ addDue' = addDue \ {id}
    /\ \E s \in {Refresh(CreateTerminal(Cur, id))} : Commit(s)
    /\ lastOp' = [NoOp EXCEPT !.kind = "addContinues", !.agentId = id]
    /\ UNCHANGED <<refreshDue, addDialogs, watcherVars, cacheVars, gitVars,
                   mapVars, installerVars>>

\* agentFleet.removeAgent, confirmed, while at most MaxRefreshes earlier
\* removals still await storage
StorageRemoveAgent(agentId) ==
    /\ refreshDue < MaxRefreshes
    /\ RemoveAgent(agentId, TRUE)

\* The directories the user picks in the dialogs
PickedDirs == {"dA", "dB"}

StorageNext ==
    \/ \E k \in DialogIds : AddAgentCommand(k)
    \/ \E k \in DialogIds : AddDialogCancelled(k)
    \/ \E k \in DialogIds, directory \in PickedDirs, id \in AgentIds :
            AddDialogPicks(k, directory, id)
    \/ \E id \in AgentIds : AddAgentContinues(id)
    \/ \E a \in AgentIds : StorageRemoveAgent(a)
    \/ RemoveAgentRefresh

SpecStorage == StorageInit /\ [][StorageNext]_vars

\* C29: whatever add and remove commands ran, and however their dialogs
\* overlapped, no two stored agents have the same directory.
C29_OneAgentPerDirectory ==
    \A i, j \in 1..Len(agents) :
        agents[i].directory = agents[j].directory => i = j

\* C29 witness: a dialog that was open while another add command stored an
\* agent for dA picked dA itself and was refused
C29_Witness ==
    /\ lastOp.kind = "addPicked" /\ lastOp.dir = "dA"
    /\ lastOp.stale /\ ~lastOp.ret
    /\ Len(agents) = 1 /\ agents[1].directory = "dA"

----------------------------------------------------------------------------
(* SpecCounts: the status bar under hook events and the add and remove     *)
(* commands, from an empty storage; the prompts stay unanswered.           *)

\* The hook events delivered in this specification
CountEvents ==
    {e \in DeliveredEvents : e.hook_event_name \in {"PreToolUse", "Stop"}}

\* The id generateId draws for an agent added for the directory
CountId(directory) == IF directory = "dA" THEN "a1" ELSE "a2"

CountsNext ==
    \/ \E event \in CountEvents : DeliverHookEvent(event)
    \/ AddAgentCommand(1)
    \/ \E directory \in PickedDirs : AddDialogPicks(1, directory, CountId(directory))
    \/ \E id \in AgentIds : AddAgentContinues(id)
    \/ \E a \in AgentIds : StorageRemoveAgent(a)
    \/ RemoveAgentRefresh

SpecCounts == StorageInit /\ [][CountsNext]_vars

\* The number of stored agents whose directory has the status
NumWith(status) ==
    Cardinality({i \in 1..Len(agents) : StatusOf(agents[i].directory) = status})

\* The handlers after which the status bar was recomputed: a hook event
\* (with or without a status-change notification), the end of an add
\* command, the end of a remove command
RecountKinds == {"hook", "addContinues", "refresh"}

C37_IdleAfterAdd ==
    (lastOp.kind = "addPicked" /\ lastOp.ret) => StatusOf(lastOp.dir) = "idle"

----------------------------------------------------------------------------
(* SpecFrame: two agents on two directories; hook events for both and for  *)
(* a directory without agent, and the handlers that set a status.          *)

FrameAgents == << [id |-> "a1", directory |-> "dA"],
                  [id |-> "a2", directory |-> "dB"] >>

FrameEvents ==
    {e \in HookEvents : /\ e.hook_event_name \in {"PreToolUse", "Stop"}
                        /\ e.notification_type = NoNotificationType}

FrameInit ==
    /\ CoreInit(FrameAgents) /\ FocusInit(<< >>) /\ WatcherIdle /\ CacheIdle
    /\ GitIdle /\ MapIdle /\ InstallerIdle
    /\ lastOp = NoOp

FrameNext ==
    \/ \E event \in FrameEvents : HookEvent(event)
    \/ \E a \in AgentIds : ResetAgentStatus(a)
    \/ \E a \in AgentIds : OpenTerminal(a)
    \/ \E a \in AgentIds : CloseTerminalByUser(a)
    \/ \E a \in AgentIds : SetStatusIdle(a)

SpecFrame == FrameInit /\ [][FrameNext]_vars

\* The handlers that act on the status of one directory
OneDirKinds == {"hook", "resetAgentStatus", "terminalClosed", "setStatusIdle"}

\* C39: a hook event, a reset, a closed terminal or an override for one
\* directory leaves the stored status of every other directory as it was,
\* fires at most one status-change notification, and that one for the agent
\* stored for this directory; a prompt it shows is a prompt of that agent.
C39_OtherDirsUntouched ==
    [][lastOp'.kind \in OneDirKinds =>
        /\ \A d \in Dirs \ {lastOp'.dir} : agentStatuses'[d] = agentStatuses[d]
        /\ lastOp'.fired <= 1
        /\ lastOp'.fired = 1 =>
            /\ lastOp'.seen.dir = lastOp'.dir
            /\ \E i \in 1..Len(agents) :
                /\ agents[i].directory = lastOp'.dir
                /\ agents[i].id = lastOp'.seen.agentId
        /\ \A t \in Tokens :
            (prompts'[t].live /\ ~prompts[t].live)
                => prompts'[t].directory = lastOp'.dir]_vars

\* C39 witness: a Stop event for dB changed a2 to complete and showed its
\* prompt while a1 on dA was running and stayed so
C39_Witness ==
    /\ lastOp.kind = "hook" /\ lastOp.dir = "dB" /\ lastOp.fired = 1
    /\ lastOp.seen.agentId = "a2" /\ lastOp.shown = 1
    /\ agentStatuses["dA"] = "running" /\ agentStatuses["dB"] = "complete"

----------------------------------------------------------------------------
(* SpecInstaller: HookInstaller.install and uninstall on the settings file *)
(* of the agent program, for every small content of that file.  An object  *)
(* of the file is the sequence of its keys in order, each with its value.  *)

\* A command: its text, and whether the text contains HOOK_MARKER
\* ('.agent-fleet')
HookCommand == [text |-> "fleet", marker |-> TRUE]
OldHookCommand == [text |-> "fleet-old", marker |-> TRUE]
UserCommand == [text |-> "user", marker |-> FALSE]

\* matcher absent from a hook configuration
NoMatcher == "undefined"

HookAction(command) == [type |-> "command", command |-> command]

HasKey(obj, key) == \E i \in 1..Len(obj) : obj[i].key = key

\* obj[key], for a key of the object
ValueOf(obj, key) == obj[CHOOSE i \in 1..Len(obj) : obj[i].key = key].value

\* obj[key] = value: a new key goes to the end, a key of the object keeps
\* its place
SetKey(obj, key, value) ==
    IF HasKey(obj, key)
    THEN [i \in 1..Len(obj) |->
            IF obj[i].key = key THEN [key |-> key, value |-> value] ELSE obj[i]]
    ELSE Append(obj, [key |-> key, value |-> value])

\* isOurHook(config): some action of the configuration has a command that
\* contains the marker
IsOurHook(config) ==
    \E i \in 1..Len(config.hooks) : config.hooks[i].command.marker

\* addHook(settings, eventType, matcher, command)
AddHook(settings, eventType, matcher, command) ==
    LET hooks0 == IF settings.hasHooks THEN settings.hooks ELSE << >>
        hooks1 == IF HasKey(hooks0, eventType) THEN hooks0
                  ELSE SetKey(hooks0, eventType, << >>)
        configs == ValueOf(hooks1, eventType)
        exists == \E i \in 1..Len(configs) :
                    /\ configs[i].matcher = matcher
                    /\ \E j \in 1..Len(configs[i].hooks) :
                            configs[i].hooks[j].command = command
        hookConfig == [matcher |-> matcher, hooks |-> <<HookAction(command)>>]
    IN  [settings EXCEPT
            !.hasHooks = TRUE,
            !.hooks = IF exists THEN hooks1
                      ELSE SetKey(hooks1, eventType, Append(configs, hookConfig))]

\* The configurations of one event that are not ours
NotOurs(configs) ==
    LET Keep(config) == ~IsOurHook(config) IN SelectSeq(configs, Keep)

\* removeOurHooks(settings): every configuration that is ours is filtered
\* out, an event left without configuration is deleted, and so is a hooks
\* object left without event
RemoveOurHooks(settings) ==
    IF ~settings.hasHooks THEN settings
    ELSE LET filtered == [i \in 1..Len(settings.hooks) |->
                            [key |-> settings.hooks[i].key,
                             value |-> NotOurs(settings.hooks[i].value)]]
             NonEmpty(entry) == Len(entry.value) > 0
             kept == SelectSeq(filtered, NonEmpty)
         IN  [settings EXCEPT !.hooks = kept, !.hasHooks = Len(kept) > 0]

\* readSettings(): {} when the file is missing or cannot be parsed
ReadSettings(file) ==
    IF file.state = "valid" THEN file
    ELSE [state |-> "valid", hasHooks |-> FALSE, hooks |-> << >>, rest |-> "none"]

\* The four addHook calls of install()
AddOurHooks(settings) ==
    AddHook(AddHook(AddHook(AddHook(settings,
        "PreToolUse", "*", HookCommand),
        "PostToolUse", "*", HookCommand),
        "Notification", "*", HookCommand),
        "Stop", NoMatcher, HookCommand)

\* install() that does not remove the hooks of an earlier installation
InstallKeepsOld(file) == AddOurHooks(ReadSettings(file))

\* install(): the file it leaves
Install(file) == AddOurHooks(RemoveOurHooks(ReadSettings(file)))

\* uninstall(): the file it leaves; nothing is written without a file or
\* without a hooks object
Uninstall(file) ==
    IF file.state = "absent" THEN file
    ELSE IF ~ReadSettings(file).hasHooks THEN file
    ELSE RemoveOurHooks(ReadSettings(file))

\* The events install() hooks
HookedEvents == {"PreToolUse", "PostToolUse", "Notification", "Stop"}

\* The contents the file starts with: hooks for at most two of three events,
\* each with up to MaxConfigs configurations: one of the user, ours, one of
\* an earlier installation, and one that holds an action of the user and ours
MaxConfigs == 2
InputEvents == {"PreToolUse", "Stop", "SessionStart"}
InputConfigs ==
    {[matcher |-> "Bash", hooks |-> <<HookAction(UserCommand)>>],
     [matcher |-> "*", hooks |-> <<HookAction(HookCommand)>>],
     [matcher |-> NoMatcher, hooks |-> <<HookAction(OldHookCommand)>>],
     [matcher |-> "Bash", hooks |-> <<HookAction(UserCommand),
                                      HookAction(HookCommand)>>]}
InputConfigLists == UNION {[1..n -> InputConfigs] : n \in 0..MaxConfigs}
InputHooks ==
    {<< >>}
    \cup {<<[key |-> a, value |-> x]>> : a \in InputEvents, x \in InputConfigLists}
    \cup {<<[key |-> ab[1], value |-> x], [key |-> ab[2], value |-> y]>> :
            ab \in {p \in InputEvents \X InputEvents : p[1] # p[2]},
            x \in InputConfigLists, y \in InputConfigLists}
InputSettings ==
    {NoSettings,
     [state |-> "malformed", hasHooks |-> FALSE, hooks |-> << >>, rest |-> "none"]}
    \cup {[state |-> "valid", hasHooks |-> FALSE, hooks |-> << >>, rest |-> r] :
            r \in {"none", "model"}}
    \cup {[state |-> "valid", hasHooks |-> TRUE, hooks |-> h, rest |-> r] :
            h \in InputHooks, r \in {"none", "model"}}

installerOthers == <<coreVars, asyncVars, focusVars, watcherVars, cacheVars,
                     gitVars, mapVars>>

InstallerInit ==
    /\ CoreInit(InitialAgents) /\ FocusInit(<< >>) /\ WatcherIdle /\ CacheIdle
    /\ GitIdle /\ MapIdle
    /\ settingsFile \in InputSettings
    /\ settingsBefore = settingsFile
    /\ lastOp = NoOp

\* The agentFleet.installHooks command
InstallHooks ==
    /\ settingsFile' = Install(settingsFile)
    /\ settingsBefore' = settingsFile
    /\ lastOp' = [NoOp EXCEPT !.kind = "install"]
    /\ UNCHANGED installerOthers

\* The agentFleet.uninstallHooks command
UninstallHooks ==
    /\ settingsFile' = Uninstall(settingsFile)
    /\ settingsBefore' = settingsFile
    /\ lastOp' = [NoOp EXCEPT !.kind = "uninstall"]
    /\ UNCHANGED installerOthers

InstallerNext == InstallHooks \/ UninstallHooks

SpecInstaller == InstallerInit /\ [][InstallerNext]_vars

\* The configurations of an event in a file
ConfigsOf(file, eventType) ==
    IF file.hasHooks /\ HasKey(file.hooks, eventType)
    THEN ValueOf(file.hooks, eventType) ELSE << >>

\* The number of configurations of an event that carry the marker
OurCount(file, eventType) ==
    Cardinality({i \in 1..Len(ConfigsOf(file, eventType)) :
                    IsOurHook(ConfigsOf(file, eventType)[i])})

\* C27: the file install() leaves is the file a second install() leaves,
\* and it has exactly one configuration with the marker for each of
\* PreToolUse, PostToolUse, Notification and Stop, whatever configurations
\* with the marker the file had before.
C27_InstallIdempotent ==
    lastOp.kind = "install" =>
        /\ Install(settingsFile) = settingsFile
        /\ \A eventType \in HookedEvents : OurCount(settingsFile, eventType) = 1

\* C27 witness: install() ran on a file that had two configurations with
\* the marker for PreToolUse, one of them of an earlier installation
C27_Witness ==
    /\ lastOp.kind = "install"
    /\ OurCount(settingsBefore, "PreToolUse") = 2
    /\ \E i \in 1..Len(ConfigsOf(settingsBefore, "PreToolUse")) :
            ConfigsOf(settingsBefore, "PreToolUse")[i].hooks
                = <<HookAction(OldHookCommand)>>
    /\ OurCount(settingsFile, "PreToolUse") = 1

\* The actions of an event whose command does not contain the marker, in
\* the order of the file
RECURSIVE UserActionsIn(_)
UserActionsIn(configs) ==
    IF configs = << >> THEN << >>
    ELSE LET NotMarked(action) == ~action.command.marker
         IN  SelectSeq(Head(configs).hooks, NotMarked) \o UserActionsIn(Tail(configs))

\* C28 (as claimed): install() and uninstall() leave every action whose
\* command does not contain the marker in the file, in its order, under its
\* event.
C28_UnrelatedUntouched ==
    lastOp.kind \in {"install", "uninstall"} =>
        \A eventType \in InputEvents :
            UserActionsIn(ConfigsOf(settingsFile, eventType))
                = UserActionsIn(ConfigsOf(settingsBefore, eventType))

\* A settings file that parses and has no configuration with the marker
MarkerFree(file) ==
    /\ file.state = "valid"
    /\ \A i \in 1..Len(file.hooks) :
            \A j \in 1..Len(file.hooks[i].value) :
                ~IsOurHook(file.hooks[i].value[j])

\* C40: install() followed by uninstall() is a round trip: after install()
\* ran on settings without any configuration with the marker, uninstall()
\* leaves the settings install() found, an event with an empty list of
\* configurations and an empty hooks object included.
C40_InstallUninstallRoundTrip ==
    (lastOp.kind = "install" /\ MarkerFree(settingsBefore))
        => Uninstall(settingsFile) = settingsBefore

====
